---- MODULE Spec2Model ----
(***************************************************************************)
(* Model of sdlookup's fetch pipeline: the LRU result cache                *)
(* (internal/api/cache.go), the token-bucket rate limiter and the client   *)
(* options (internal/api/client.go) and the scan orchestrator              *)
(* (internal/scanner/scanner.go).                                          *)
(*                                                                         *)
(* Every mutex-protected critical section of the Go code is one atomic     *)
(* action; code that runs between two critical sections is a separate      *)
(* action so that other goroutines can interleave exactly where the Go     *)
(* scheduler lets them.                                                    *)
(***************************************************************************)
EXTENDS Integers, Sequences, FiniteSets, TLC

\* ------------------------------------------------------------------------
\* Bounds of the model
\* ------------------------------------------------------------------------
MaxCap == 2
MaxTTL == 1
MaxTime == 2
MaxCallers == 2
MaxRate == 2
MaxWaiters == 2
MaxClosers == 2
MaxCloseCalls == 3
MaxLimiters == 3
MaxIPs == 2
MaxWorkers == 2
MaxRetries == 1

Keys == {"k1", "k2", "k3"}
Values == {1, 2}
NoKey == ""
\* the keys and values of the shared-cache specification
ConcKeys == {"k1", "k2"}
ConcValues == {1}

VARIABLES
  \* LRUCache (cache.go:11-17) and the wall clock
  items, keyOrder, maxSize, ttl, now,
  \* the goroutines calling the cache, the keys and values they pass, and
  \* each one's position, argument and the item read
  \* under RLock; cret is what the call that returned last returned
  callers, askKeys, askValues, cpc, ckey, citem, cret,
  \* history of the cache: the keys it holds by last touch (least recent
  \* first) and by insertion (oldest first), and whether an eviction took
  \* place ("oldest") and ever took a key other than the oldest inserted one
  \* ("recency")
  \* (the history is kept when track is set)
  track, recency, insOrder, evictHist

cacheVars == <<items, keyOrder, maxSize, ttl, now, callers, askKeys, askValues, cpc, ckey, citem,
               cret, track, recency, insOrder, evictHist>>

VARIABLES
  \* one RateLimiter (client.go:217-223): rl holds its token channel, ticker,
  \* stop channel, closeOnce and the state of its refill goroutine
  rl,
  \* the goroutines calling Wait (position, context) and what the Wait that
  \* returned last returned
  rpc, ctxDone, rret,
  \* the goroutines calling Close and the number of Close calls made
  kpc, closeCalls,
  \* an observer's window: whether it is open, the ticker periods begun
  \* since it opened, and the Waits that succeeded in it without blocking
  winOpen, winTicks, winNoBlock

rlVars == <<rl, rpc, ctxDone, rret, kpc, closeCalls, winOpen, winTicks,
            winNoBlock>>

VARIABLES
  \* every RateLimiter made for one Client, in order of creation, and the
  \* index of the one Client.limiter points to (0: Client.limiter is nil),
  \* and what the Client.Close that returned last returned
  limiters, clientLimiter, closeRet

clientVars == <<limiters, clientLimiter, closeRet>>

VARIABLES
  \* the arguments of ScanIPs (scanner.go:84), the context and the reader of
  \* the results channel
  ips, concurrency, cancelled, consumerOn,
  \* ipChan and the results channel (the number of results not yet read)
  ipChan, ipChanClosed, results,
  \* the feeder goroutine: the index of the next ip and its position
  feedIdx, feederPc,
  \* the workers: position, the ip taken and the result of ScanIP
  wpc, wip, wres,
  \* ScanIPs itself: position and returned error
  scanPc, scanErr,
  \* history: the keys taken from ipChan, what GetIPInfo returned for each
  \* key, and the outcomes sent on results for each key
  taken, fetched, emitted

scanVars == <<ips, concurrency, cancelled, consumerOn, ipChan, ipChanClosed,
              results, feedIdx, feederPc, wpc, wip, wres, scanPc, scanErr,
              taken, fetched, emitted>>

VARIABLES
  \* the configuration of the Client that GetIPInfo reads (client.go:17-26):
  \* maxRetries and whether a cache is set
  maxRetries, hasCache,
  \* one goroutine calling GetIPInfo (client.go:121-168): its position, the
  \* ip asked for, the loop variables attempt and lastErr, and what the call
  \* that returned last returned
  gpc, gip, attempt, lastErr, gret,
  \* history of the call under way or returned last: the upstream exchanges
  \* it started, its calls of limiter.Wait and of cache.Set, whether its
  \* context was done before it started an exchange, and the cache as it was
  \* when the call began
  exchanges, waits, sets, lateExchange, cache0

fetchVars == <<maxRetries, hasCache, gpc, gip, attempt, lastErr, gret,
               exchanges, waits, sets, lateExchange, cache0>>

VARIABLES
  \* main.go:93, 76, 103-104: cfg.OmitEmpty as main hands it on, whether the
  \* client was given a cache, and whether the input comes from stdin
  omitEmpty, cacheOn, stdinMode,
  \* the result that is on the results channel (opc = "result"), the results
  \* written to the output, the calls of cache.Set made by the lookups, and
  \* the number of lookups made
  opc, cur, written, setCalls, nLookups

outVars == <<omitEmpty, cacheOn, stdinMode, opc, cur, written, setCalls,
             nLookups>>

VARIABLES
  \* the command line (the flags given and their values), the configuration
  \* file (the settings it holds and their values), the Config that main
  \* holds, and main's position
  cmdline, file, cfg, mpc

configVars == <<cmdline, file, cfg, mpc>>

VARIABLES
  \* the input ScanInput is called with (scanner.go:130) and the result of
  \* ScanIP that ScanInput holds for an input that is no range
  input, sres

inputVars == <<input, sres>>

VARIABLES
  \* the retry configuration of a Client (client.go:24-25, as bits of a
  \* time.Duration), the loop variable attempt of GetIPInfo
  \* (client.go:133), the backoffDuration it computed for this attempt
  \* (client.go:135) and the one it computed for the attempt before
  backoff, backoffRetries, backoffAttempt, backoffDuration, prevDuration

backoffVars == <<backoff, backoffRetries, backoffAttempt, backoffDuration, prevDuration>>

VARIABLES
  \* one goroutine calling ScanIP (scanner.go:32-60): its position, the ip it
  \* was called with and the result of the call that returned last
  spc, sip, sret

scanIPVars == <<spc, sip, sret>>

VARIABLES
  \* several goroutines inside GetIPInfo on one client (the workers of
  \* ScanIPs): the position and the loop variable attempt of each, the
  \* tokens that left the limiter's channel and the exchanges started
  fpc, fattempt, granted, started

fetchersVars == <<fpc, fattempt, granted, started>>

vars == <<cacheVars, rlVars, clientVars, scanVars, fetchVars, outVars,
          configVars, inputVars,
  backoffVars,
  scanIPVars,
  fetchersVars>>

\* the variables an action of one component leaves alone
notCache == <<rlVars, clientVars, scanVars, fetchVars, outVars,
  configVars, inputVars,
  backoffVars,
  scanIPVars,
  fetchersVars>>
notRL == <<cacheVars, clientVars, scanVars, fetchVars, outVars,
  configVars, inputVars,
  backoffVars,
  scanIPVars,
  fetchersVars>>
notClient == <<cacheVars, rlVars, scanVars, fetchVars, outVars,
  configVars, inputVars,
  backoffVars,
  scanIPVars,
  fetchersVars>>
notScan == <<cacheVars, rlVars, clientVars, fetchVars, outVars,
  configVars, inputVars,
  backoffVars,
  scanIPVars,
  fetchersVars>>
notFetch == <<clientVars, scanVars, outVars,
  configVars, inputVars,
  backoffVars,
  scanIPVars,
  fetchersVars>>
notOut == <<cacheVars, rlVars, clientVars, scanVars, fetchVars, configVars,
  inputVars,
  backoffVars,
  scanIPVars,
  fetchersVars>>
notConfig == <<cacheVars, rlVars, clientVars, scanVars, fetchVars, outVars,
  inputVars,
  backoffVars,
  scanIPVars,
  fetchersVars>>

\* ------------------------------------------------------------------------
\* LRUCache
\* ------------------------------------------------------------------------
NoItem == [exists |-> FALSE, value |-> 0, expiresAt |-> 0]
NoRet == [kind |-> "none", value |-> 0]

Min(S) == CHOOSE x \in S : \A y \in S : x <= y

SeqSet(s) == {s[i] : i \in 1..Len(s)}

Without(s, S) == SelectSeq(s, LAMBDA x : x \notin S)

\* delete(m, key) of a Go map
MapDelete(m, key) == [j \in (DOMAIN m) \ {key} |-> m[j]]

\* m[key] = item of a Go map
MapPut(m, key, item) == [j \in (DOMAIN m) \cup {key} |->
                           IF j = key THEN item ELSE m[j]]

RemoveAt(s, i) == SubSeq(s, 1, i - 1) \o SubSeq(s, i + 1, Len(s))

\* removeFromOrder that removes nothing
removeFromOrder_keep(order, key) == order

\* cache.go:95-102: removes the first occurrence of key, if any
removeFromOrder(order, key) ==
  LET idx == {i \in 1..Len(order) : order[i] = key}
  IN IF idx = {} THEN order ELSE RemoveAt(order, Min(idx))

\* moveToFront that leaves the key where it is
moveToFront_noMove(order, key) == order

\* cache.go:89-92
moveToFront(order, key) == <<key>> \o removeFromOrder(order, key)

\* cache.go:105-113; c is the pair [items, keyOrder]
evictOldest(c) ==
  IF Len(c.keyOrder) = 0
    THEN c
    ELSE [items |-> MapDelete(c.items, c.keyOrder[Len(c.keyOrder)]),
          keyOrder |-> SubSeq(c.keyOrder, 1, Len(c.keyOrder) - 1)]

\* cache.go:45: time.Now().After(item.expiresAt)
Expired(item, t) == t > item.expiresAt

\* an item stored with no time-to-live added to the time of the Set
NewItem_noTTL(value, t, d) == [exists |-> TRUE, value |-> value, expiresAt |-> t]

\* cache.go:68-71, 81-84: the item a Set stores
NewItem(value, t, d) == [exists |-> TRUE, value |-> value, expiresAt |-> t + d]

\* cache.go:116-120
Size == Cardinality(DOMAIN items)

\* Set whose capacity test is off by one
SetResult_offByOne(c, cap, key, value, t, d) ==
  IF key \in DOMAIN c.items
    THEN [items |-> MapPut(c.items, key, NewItem(value, t, d)),
          keyOrder |-> <<key>> \o removeFromOrder(c.keyOrder, key)]
    ELSE LET e == IF Cardinality(DOMAIN c.items) > cap
                    THEN evictOldest(c) ELSE c
         IN [items |-> MapPut(e.items, key, NewItem(value, t, d)),
             keyOrder |-> <<key>> \o e.keyOrder]

\* cache.go:62-86: the cache [items, keyOrder] after Set(key, value) at time
\* t of a cache with capacity cap and time-to-live d
SetResult(c, cap, key, value, t, d) ==
  IF key \in DOMAIN c.items
    THEN [items |-> MapPut(c.items, key, NewItem(value, t, d)),
          keyOrder |-> moveToFront(c.keyOrder, key)]
    ELSE LET e == IF Cardinality(DOMAIN c.items) >= cap
                    THEN evictOldest(c) ELSE c
         IN [items |-> MapPut(e.items, key, NewItem(value, t, d)),
             keyOrder |-> <<key>> \o e.keyOrder]

\* history: key was touched by a Get hit or a Set; gone left the cache
Touched(key, gone) ==
  recency' = IF ~track THEN recency
             ELSE IF key \in DOMAIN items'
               THEN Append(Without(recency, gone \cup {key}), key)
               ELSE Without(recency, gone \cup {key})

\* cache.go:36-42: the read under RLock; a missing key returns at once
GetStart(t, key) ==
  /\ cpc[t] = "idle"
  /\ IF key \in DOMAIN items
       THEN /\ citem' = [citem EXCEPT ![t] = items[key]]
            /\ ckey' = [ckey EXCEPT ![t] = key]
            /\ cpc' = [cpc EXCEPT ![t] = "get_check"]
            /\ cret' = cret
       ELSE /\ cret' = [kind |-> "miss", value |-> 0]
            /\ UNCHANGED <<cpc, ckey, citem>>
  /\ UNCHANGED <<items, keyOrder, maxSize, ttl, now, callers, askKeys, askValues, track,
                 recency, insOrder, evictHist>>

\* cache.go:45: the expiry test, made with no lock held
GetCheck(t) ==
  /\ cpc[t] = "get_check"
  /\ cpc' = [cpc EXCEPT ![t] = IF Expired(citem[t], now)
                                 THEN "get_purge" ELSE "get_promote"]
  /\ UNCHANGED <<items, keyOrder, maxSize, ttl, now, callers, askKeys, askValues, ckey, citem, cret,
                 track, recency, insOrder, evictHist>>

\* cache.go:46-50: the purge of the expired entry under Lock
GetPurge(t) ==
  /\ cpc[t] = "get_purge"
  /\ items' = MapDelete(items, ckey[t])
  /\ keyOrder' = removeFromOrder(keyOrder, ckey[t])
  /\ cpc' = [cpc EXCEPT ![t] = "idle"]
  /\ cret' = [kind |-> "purged", value |-> 0]
  /\ citem' = [citem EXCEPT ![t] = NoItem]
  /\ ckey' = [ckey EXCEPT ![t] = NoKey]
  /\ recency' = Without(recency, {ckey[t]})
  /\ insOrder' = Without(insOrder, {ckey[t]})
  /\ UNCHANGED <<maxSize, ttl, now, callers, askKeys, askValues, track, evictHist>>

\* cache.go:54-58: the promotion under Lock and the hit
GetPromote(t) ==
  /\ cpc[t] = "get_promote"
  /\ keyOrder' = moveToFront(keyOrder, ckey[t])
  /\ cpc' = [cpc EXCEPT ![t] = "idle"]
  /\ cret' = [kind |-> "hit", value |-> citem[t].value]
  /\ citem' = [citem EXCEPT ![t] = NoItem]
  /\ ckey' = [ckey EXCEPT ![t] = NoKey]
  /\ items' = items
  /\ Touched(ckey[t], {})
  /\ UNCHANGED <<maxSize, ttl, now, callers, askKeys, askValues, track, insOrder, evictHist>>

\* cache.go:62-86: the whole of Set runs under Lock
Set(t, key, value) ==
  /\ cpc[t] = "idle"
  /\ LET c == SetResult([items |-> items, keyOrder |-> keyOrder], maxSize,
                        key, value, now, ttl)
         gone == (DOMAIN items) \ (DOMAIN c.items)
     IN /\ items' = c.items
        /\ keyOrder' = c.keyOrder
        /\ Touched(key, gone)
        /\ insOrder' = IF key \in DOMAIN items \/ ~track THEN insOrder
                       ELSE Append(Without(insOrder, gone), key)
        /\ evictHist' =
             IF ~track \/ gone = {} THEN evictHist
             ELSE IF \E e \in gone : Head(insOrder) # e THEN "recency"
             ELSE IF evictHist = "none" THEN "oldest" ELSE evictHist
  /\ cret' = [kind |-> "set", value |-> 0]
  /\ UNCHANGED <<maxSize, ttl, now, callers, askKeys, askValues, track, cpc, ckey, citem>>

\* a Clear that empties the map and keeps the order list
ClearResult_keepOrder(c) ==
  [items |-> [j \in {} |-> NoItem], keyOrder |-> c.keyOrder]

\* cache.go:126-127: the cache [items, keyOrder] after Clear
ClearResult(c) == [items |-> [j \in {} |-> NoItem], keyOrder |-> <<>>]

\* cache.go:123-128: the whole of Clear runs under Lock
Clear(t) ==
  /\ cpc[t] = "idle"
  /\ LET c == ClearResult([items |-> items, keyOrder |-> keyOrder])
     IN /\ items' = c.items
        /\ keyOrder' = c.keyOrder
  /\ cret' = [kind |-> "clear", value |-> 0]
  /\ recency' = <<>>
  /\ insOrder' = <<>>
  /\ UNCHANGED <<maxSize, ttl, now, callers, askKeys, askValues, track, cpc,
                 ckey, citem, evictHist>>

\* the wall clock advances
TickClock ==
  /\ now < MaxTime
  /\ now' = now + 1
  /\ UNCHANGED <<items, keyOrder, maxSize, ttl, callers, askKeys, askValues, cpc, ckey, citem, cret,
                 track, recency, insOrder, evictHist>>
  /\ UNCHANGED notCache

CallerIds == 1..MaxCallers

\* cache.go:25-32: NewLRUCache(maxSize, ttl), used by n goroutines
CacheInit(n, ks, vs) ==
  /\ items = [j \in {} |-> NoItem]
  /\ keyOrder = <<>>
  /\ maxSize \in 0..MaxCap
  /\ ttl \in 0..MaxTTL
  /\ now = 0
  /\ callers = 1..n
  /\ askKeys = ks
  /\ askValues = vs
  /\ track = (n = 1)
  /\ cpc = [t \in CallerIds |-> "idle"]
  /\ ckey = [t \in CallerIds |-> NoKey]
  /\ citem = [t \in CallerIds |-> NoItem]
  /\ cret = NoRet
  /\ recency = <<>>
  /\ insOrder = <<>>
  /\ evictHist = "none"

CacheGetStart == 
  /\ \E t \in callers, key \in askKeys : GetStart(t, key)
  /\ UNCHANGED notCache
CacheGetCheck == 
  /\ \E t \in callers : GetCheck(t)
  /\ UNCHANGED notCache
CacheGetPurge == 
  /\ \E t \in callers : GetPurge(t)
  /\ UNCHANGED notCache
CacheGetPromote == 
  /\ \E t \in callers : GetPromote(t)
  /\ UNCHANGED notCache
CacheSet == 
  /\ \E t \in callers, key \in askKeys, value \in askValues : Set(t, key, value)
  /\ UNCHANGED notCache

CacheNext ==
  \/ CacheGetStart
  \/ CacheGetCheck
  \/ CacheGetPurge
  \/ CacheGetPromote
  \/ CacheSet
  \/ TickClock


CacheClear ==
  /\ \E t \in callers : Clear(t)
  /\ UNCHANGED notCache

\* the calls of Get and Set together with Clear
CacheClearNext ==
  \/ CacheGetStart
  \/ CacheGetCheck
  \/ CacheGetPurge
  \/ CacheGetPromote
  \/ CacheSet
  \/ CacheClear
  \/ TickClock

\* the cache when a specification does not use it
CacheUnused ==
  /\ items = [j \in {} |-> NoItem]
  /\ keyOrder = <<>>
  /\ maxSize = 0
  /\ ttl = 0
  /\ now = 0
  /\ callers = {}
  /\ askKeys = {}
  /\ askValues = {}
  /\ track = FALSE
  /\ cpc = [t \in CallerIds |-> "idle"]
  /\ ckey = [t \in CallerIds |-> NoKey]
  /\ citem = [t \in CallerIds |-> NoItem]
  /\ cret = NoRet
  /\ recency = <<>>
  /\ insOrder = <<>>
  /\ evictHist = "none"

\* ------------------------------------------------------------------------
\* RateLimiter
\* ------------------------------------------------------------------------
DefaultRate == 60

\* a NewRateLimiter that leaves the token channel empty
NewRateLimiter_noFill(requestsPerMinute) ==
  LET r == IF requestsPerMinute <= 0 THEN DefaultRate ELSE requestsPerMinute
  IN [cap |-> r, tokens |-> 0, tickerC |-> 0, tickerStopped |-> FALSE,
      stopClosed |-> FALSE, stopCloses |-> 0, onceDone |-> FALSE,
      onceLocked |-> FALSE, regen |-> "running"]

\* client.go:226-260: a limiter right after NewRateLimiter(requestsPerMinute):
\* the token channel (capacity cap) is full, the ticker runs, the refill
\* goroutine is started
NewRateLimiter(requestsPerMinute) ==
  LET r == IF requestsPerMinute <= 0 THEN DefaultRate ELSE requestsPerMinute
  IN [cap |-> r, tokens |-> r, tickerC |-> 0, tickerStopped |-> FALSE,
      stopClosed |-> FALSE, stopCloses |-> 0, onceDone |-> FALSE,
      onceLocked |-> FALSE, regen |-> "running"]

\* the ticker's period elapses: time.Ticker holds at most one tick ready for
\* its receiver and drops the tick when one is ready already
TickerFire(r) ==
  IF r.tickerStopped THEN r ELSE [r EXCEPT !.tickerC = 1]

\* client.go:247: the refill goroutine receives a tick in its outer select
TakeTick(r) == [r EXCEPT !.tickerC = 0, !.regen = "got_tick"]

\* a refill that adds a token whatever the pool holds
RefillTokens_noCap(r) ==
  [r EXCEPT !.regen = "running", !.tokens = r.tokens + 1]

\* client.go:248-252: the inner select of the refill goroutine sends a token
\* unless the buffer is full, and the loop goes back to the outer select
RefillTokens(r) ==
  [r EXCEPT !.regen = "running",
            !.tokens = IF r.tokens < r.cap THEN r.tokens + 1 ELSE r.tokens]

\* a Wait that succeeds and leaves the token in the channel
TakeToken_keep(r) == r

\* client.go:265: a token is received from the channel
TakeToken(r) == [r EXCEPT !.tokens = r.tokens - 1]

\* a Close that leaves the stop channel open
CloseStop_noClose(r) == [r EXCEPT !.stopCloses = r.stopCloses + 1]

\* client.go:275: close(r.stop)
CloseStop(r) == [r EXCEPT !.stopClosed = TRUE, !.stopCloses = r.stopCloses + 1]

\* a Close that forgets to stop the ticker
StopTicker_running(r) == [r EXCEPT !.onceDone = TRUE, !.onceLocked = FALSE]

\* client.go:276: r.ticker.Stop(); the closure then returns and closeOnce is
\* done. With the timers of go 1.23 (go.mod:3) a tick made ready before Stop
\* is not received after it.
StopTicker(r) == [r EXCEPT !.tickerStopped = TRUE, !.tickerC = 0,
                           !.onceDone = TRUE, !.onceLocked = FALSE]

WaiterIds == 1..MaxWaiters
CloserIds == 1..MaxClosers

Granted(blocked) ==
  winNoBlock' = IF winOpen /\ ~blocked THEN winNoBlock + 1 ELSE winNoBlock

\* client.go:263-270: Wait's select when it is reached; with a token and a
\* done context both ready, either case may be taken
Wait(t) ==
  /\ rpc[t] = "idle"
  /\ \/ /\ rl.tokens > 0
        /\ rl' = TakeToken(rl)
        /\ rret' = "ok"
        /\ Granted(FALSE)
        /\ UNCHANGED rpc
     \/ /\ ctxDone[t]
        /\ rret' = "ctx_err"
        /\ UNCHANGED <<rl, rpc, winNoBlock>>
     \/ /\ rl.tokens = 0 /\ ~ctxDone[t]
        /\ rpc' = [rpc EXCEPT ![t] = "blocked"]
        /\ UNCHANGED <<rl, rret, winNoBlock>>
  /\ UNCHANGED <<ctxDone, kpc, closeCalls, winOpen, winTicks>>

\* client.go:263-270: a blocked Wait is woken by a token or by its context
WaitWake(t) ==
  /\ rpc[t] = "blocked"
  /\ \/ /\ rl.tokens > 0
        /\ rl' = TakeToken(rl)
        /\ rret' = "ok_after_block"
        /\ Granted(TRUE)
     \/ /\ ctxDone[t]
        /\ rret' = "ctx_err"
        /\ UNCHANGED <<rl, winNoBlock>>
  /\ rpc' = [rpc EXCEPT ![t] = "idle"]
  /\ UNCHANGED <<ctxDone, kpc, closeCalls, winOpen, winTicks>>

\* the caller's context is cancelled
CancelWait(t) ==
  /\ ~ctxDone[t]
  /\ ctxDone' = [ctxDone EXCEPT ![t] = TRUE]
  /\ UNCHANGED <<rl, rpc, rret, kpc, closeCalls, winOpen, winTicks, winNoBlock>>

\* one ticker period (time.Minute / requestsPerMinute, client.go:231) passes
Period ==
  /\ rl' = TickerFire(rl)
  /\ IF winOpen /\ winTicks + 1 < rl.cap
       THEN /\ winTicks' = winTicks + 1
            /\ UNCHANGED <<winOpen, winNoBlock>>
       ELSE /\ winOpen' = FALSE
            /\ winTicks' = 0
            /\ winNoBlock' = 0
  /\ UNCHANGED <<rpc, ctxDone, rret, kpc, closeCalls>>

\* client.go:247: the refill goroutine receives a tick
RegenTick ==
  /\ rl.regen = "running"
  /\ rl.tickerC = 1
  /\ rl' = TakeTick(rl)
  /\ UNCHANGED <<rpc, ctxDone, rret, kpc, closeCalls, winOpen, winTicks, winNoBlock>>

\* client.go:248-252: the refill goroutine sends the token of the tick it
\* received, or skips it when the buffer is full
Refill ==
  /\ rl.regen = "got_tick"
  /\ rl' = RefillTokens(rl)
  /\ UNCHANGED <<rpc, ctxDone, rret, kpc, closeCalls, winOpen, winTicks, winNoBlock>>

\* client.go:253-254: the refill goroutine sees the closed stop channel
RegenExit ==
  /\ rl.regen = "running"
  /\ rl.stopClosed
  /\ rl' = [rl EXCEPT !.regen = "exited"]
  /\ UNCHANGED <<rpc, ctxDone, rret, kpc, closeCalls, winOpen, winTicks, winNoBlock>>

\* Close without the closeOnce guard
CloseEnter_noOnce(c) ==
  /\ kpc[c] = "idle"
  /\ closeCalls < MaxCloseCalls
  /\ closeCalls' = closeCalls + 1
  /\ rl' = [CloseStop(rl) EXCEPT !.onceLocked = TRUE]
  /\ kpc' = [kpc EXCEPT ![c] = "stop_ticker"]
  /\ UNCHANGED <<rpc, ctxDone, rret, winOpen, winTicks, winNoBlock>>

\* client.go:273-275: Close enters closeOnce.Do: it returns at once when the
\* Once is done, waits while another call runs the closure, and otherwise
\* runs the closure, which first closes the stop channel
CloseEnter(c) ==
  /\ kpc[c] = "idle"
  /\ closeCalls < MaxCloseCalls
  /\ closeCalls' = closeCalls + 1
  /\ IF rl.onceDone
       THEN UNCHANGED <<rl, kpc>>
       ELSE IF rl.onceLocked
         THEN /\ kpc' = [kpc EXCEPT ![c] = "once_wait"]
              /\ UNCHANGED rl
         ELSE /\ rl' = [CloseStop(rl) EXCEPT !.onceLocked = TRUE]
              /\ kpc' = [kpc EXCEPT ![c] = "stop_ticker"]
  /\ UNCHANGED <<rpc, ctxDone, rret, winOpen, winTicks, winNoBlock>>

\* client.go:276-277: the closure stops the ticker and returns
CloseStopTicker(c) ==
  /\ kpc[c] = "stop_ticker"
  /\ rl' = StopTicker(rl)
  /\ kpc' = [kpc EXCEPT ![c] = "idle"]
  /\ UNCHANGED <<rpc, ctxDone, rret, closeCalls, winOpen, winTicks, winNoBlock>>

\* client.go:274: a Close that waited in closeOnce.Do returns once the
\* closure of the other call has returned
CloseOnceWaitEnd(c) ==
  /\ kpc[c] = "once_wait"
  /\ ~rl.onceLocked
  /\ kpc' = [kpc EXCEPT ![c] = "idle"]
  /\ UNCHANGED <<rl, rpc, ctxDone, rret, closeCalls, winOpen, winTicks, winNoBlock>>

\* the observer starts a window at the present moment
OpenWindow ==
  /\ ~winOpen
  /\ winOpen' = TRUE
  /\ winTicks' = 0
  /\ winNoBlock' = 0
  /\ UNCHANGED <<rl, rpc, ctxDone, rret, kpc, closeCalls>>

RLInit ==
  /\ \E r \in 1..MaxRate : rl = NewRateLimiter(r)
  /\ rpc = [t \in WaiterIds |-> "idle"]
  /\ ctxDone = [t \in WaiterIds |-> FALSE]
  /\ rret = "none"
  /\ kpc = [c \in CloserIds |-> "idle"]
  /\ closeCalls = 0
  /\ winOpen = FALSE
  /\ winTicks = 0
  /\ winNoBlock = 0

\* client.go:226-260: a limiter made with any argument of RateArgs, watched
\* from the moment it is made
NewLimiterInit ==
  /\ \E r \in (-1)..MaxRate : rl = NewRateLimiter(r)
  /\ rpc = [t \in WaiterIds |-> "idle"]
  /\ ctxDone = [t \in WaiterIds |-> FALSE]
  /\ rret = "none"
  /\ kpc = [c \in CloserIds |-> "idle"]
  /\ closeCalls = 0
  /\ winOpen = TRUE
  /\ winTicks = 0
  /\ winNoBlock = 0

\* the rate limiter when a specification does not use it
RLUnused ==
  /\ rl = NewRateLimiter(1)
  /\ rpc = [t \in WaiterIds |-> "idle"]
  /\ ctxDone = [t \in WaiterIds |-> FALSE]
  /\ rret = "none"
  /\ kpc = [c \in CloserIds |-> "idle"]
  /\ closeCalls = 0
  /\ winOpen = FALSE
  /\ winTicks = 0
  /\ winNoBlock = 0

RLWait == (\E t \in WaiterIds : Wait(t)) /\ UNCHANGED notRL
RLWaitWake ==
  (\E t \in WaiterIds : WaitWake(t)) /\ UNCHANGED notRL
RLCancel ==
  (\E t \in WaiterIds : CancelWait(t)) /\ UNCHANGED notRL
RLPeriod == Period /\ UNCHANGED notRL
RLRegenTick == RegenTick /\ UNCHANGED notRL
RLRefill == Refill /\ UNCHANGED notRL
RLRegenExit == RegenExit /\ UNCHANGED notRL
RLCloseEnter ==
  (\E c \in CloserIds : CloseEnter(c)) /\ UNCHANGED notRL
RLCloseStopTicker ==
  (\E c \in CloserIds : CloseStopTicker(c))
    /\ UNCHANGED notRL
RLCloseOnceWaitEnd ==
  (\E c \in CloserIds : CloseOnceWaitEnd(c))
    /\ UNCHANGED notRL
RLOpenWindow == OpenWindow /\ UNCHANGED notRL

RLNext ==
  \/ RLWait
  \/ RLWaitWake
  \/ RLCancel
  \/ RLPeriod
  \/ RLRegenTick
  \/ RLRefill
  \/ RLRegenExit
  \/ RLCloseEnter
  \/ RLCloseStopTicker
  \/ RLCloseOnceWaitEnd
  \/ RLOpenWindow

\* ------------------------------------------------------------------------
\* Client and its limiter
\* ------------------------------------------------------------------------
ClientDefaultRate == 60

\* the rates passed to WithRateLimit
RateArgs == (-1)..MaxRate

\* no limiter: Client.limiter is nil
NoLimiter == 0

\* client.go:93-111: NewClient before its options are applied, or a Client
\* literal without a limiter
ClientInit ==
  /\ \/ /\ limiters = <<NewRateLimiter(ClientDefaultRate)>>
        /\ clientLimiter = 1
     \/ /\ limiters = <<>>
        /\ clientLimiter = NoLimiter
  /\ closeRet = "none"

\* the client when a specification does not use it
ClientUnused ==
  /\ limiters = <<>>
  /\ clientLimiter = NoLimiter
  /\ closeRet = "none"

\* client.go:61-65: the option makes a new limiter and stores it in c.limiter
WithRateLimit(requestsPerMinute) ==
  /\ Len(limiters) < MaxLimiters
  /\ limiters' = Append(limiters, NewRateLimiter(requestsPerMinute))
  /\ clientLimiter' = Len(limiters) + 1
  /\ UNCHANGED closeRet

\* client.go:273-278: a whole call of RateLimiter.Close by one goroutine
CloseLimiter(r) == IF r.onceDone THEN r ELSE StopTicker(CloseStop(r))

\* Client.Close: closes the limiter when there is one and returns nil
ClientClose ==
  /\ limiters' = IF clientLimiter # NoLimiter
                   THEN [limiters EXCEPT
                           ![clientLimiter] = CloseLimiter(limiters[clientLimiter])]
                   ELSE limiters
  /\ closeRet' = "nil"
  /\ UNCHANGED clientLimiter

\* a ticker period of limiter i passes
LimiterPeriod(i) ==
  /\ limiters' = [limiters EXCEPT ![i] = TickerFire(limiters[i])]
  /\ UNCHANGED <<clientLimiter, closeRet>>

\* client.go:247: the refill goroutine of limiter i receives a tick
LimiterRegenTick(i) ==
  /\ limiters[i].regen = "running"
  /\ limiters[i].tickerC = 1
  /\ limiters' = [limiters EXCEPT ![i] = TakeTick(limiters[i])]
  /\ UNCHANGED <<clientLimiter, closeRet>>

\* client.go:248-252: the refill goroutine of limiter i sends the token of the
\* tick it received, or skips it when the buffer is full
LimiterRefill(i) ==
  /\ limiters[i].regen = "got_tick"
  /\ limiters' = [limiters EXCEPT ![i] = RefillTokens(limiters[i])]
  /\ UNCHANGED <<clientLimiter, closeRet>>

\* client.go:253-254: the refill goroutine of limiter i sees the closed stop
\* channel
LimiterRegenExit(i) ==
  /\ limiters[i].regen = "running"
  /\ limiters[i].stopClosed
  /\ limiters' = [limiters EXCEPT ![i].regen = "exited"]
  /\ UNCHANGED <<clientLimiter, closeRet>>

ClientWithRateLimit ==
  (\E r \in RateArgs : WithRateLimit(r)) /\ UNCHANGED notClient
ClientClientClose == ClientClose /\ UNCHANGED notClient
ClientLimiterPeriod ==
  (\E i \in 1..Len(limiters) : LimiterPeriod(i))
    /\ UNCHANGED notClient
ClientLimiterRegenTick ==
  (\E i \in 1..Len(limiters) : LimiterRegenTick(i))
    /\ UNCHANGED notClient
ClientLimiterRefill ==
  (\E i \in 1..Len(limiters) : LimiterRefill(i))
    /\ UNCHANGED notClient
ClientLimiterRegenExit ==
  (\E i \in 1..Len(limiters) : LimiterRegenExit(i))
    /\ UNCHANGED notClient

ClientNext ==
  \/ ClientWithRateLimit
  \/ ClientClientClose
  \/ ClientLimiterPeriod
  \/ ClientLimiterRegenTick
  \/ ClientLimiterRefill
  \/ ClientLimiterRegenExit

\* ------------------------------------------------------------------------
\* Scanner
\* ------------------------------------------------------------------------
\* the inputs: addresses 1..MaxIPs, and 0 for a string that is no address
ValidIPs == 1..MaxIPs
ScanKeys == {0} \cup ValidIPs
NoIP == -1
WorkerIds == 1..MaxWorkers

NoErr == ""
ErrInvalid == "invalid IP address"
ErrFetch == "failed after attempts"
ErrCanceled == "context canceled"

NilResult == [nil |-> TRUE, ip |-> NoIP, err |-> NoErr]

\* validator.go:10-22: the error ValidateIP returns
ValidateIP(ip) == IF ip \in ValidIPs THEN NoErr ELSE ErrInvalid

\* client.go:121-168: the errors GetIPInfo can return; it returns ctx.Err()
\* only when the context is done
FetchErrs(done) ==
  IF done THEN {NoErr, ErrFetch, ErrCanceled} ELSE {NoErr, ErrFetch}

\* ScanIP that returns no result when the lookup fails
ScanIP_nilOnError(ip, fetchErr) ==
  IF ValidateIP(ip) # NoErr
    THEN [nil |-> FALSE, ip |-> ip, err |-> ValidateIP(ip)]
    ELSE IF fetchErr # NoErr THEN NilResult
    ELSE [nil |-> FALSE, ip |-> ip, err |-> NoErr]

\* scanner.go:32-60: the result of ScanIP when GetIPInfo returns fetchErr
ScanIP(ip, fetchErr) ==
  IF ValidateIP(ip) # NoErr
    THEN [nil |-> FALSE, ip |-> ip, err |-> ValidateIP(ip)]
    ELSE [nil |-> FALSE, ip |-> ip, err |-> fetchErr]

Workers == 1..concurrency

\* a receive that reads the head of ipChan and leaves it in the channel
WorkerRecv_peek(w) ==
  /\ wpc[w] = "recv"
  /\ IF Len(ipChan) > 0
       THEN /\ wip' = [wip EXCEPT ![w] = Head(ipChan)]
            /\ taken' = taken \cup {Head(ipChan)}
            /\ wpc' = [wpc EXCEPT ![w] = "check"]
            /\ UNCHANGED ipChan
       ELSE /\ ipChanClosed
            /\ wpc' = [wpc EXCEPT ![w] = "exited"]
            /\ UNCHANGED <<wip, ipChan, taken>>
  /\ UNCHANGED <<ips, concurrency, cancelled, consumerOn, ipChanClosed,
                 results, feedIdx, feederPc, wres, scanPc, scanErr, fetched,
                 emitted>>

\* scanner.go:93: a worker receives from ipChan, or leaves the loop when the
\* channel is closed and empty
WorkerRecv(w) ==
  /\ wpc[w] = "recv"
  /\ IF Len(ipChan) > 0
       THEN /\ wip' = [wip EXCEPT ![w] = Head(ipChan)]
            /\ ipChan' = Tail(ipChan)
            /\ taken' = taken \cup {Head(ipChan)}
            /\ wpc' = [wpc EXCEPT ![w] = "check"]
       ELSE /\ ipChanClosed
            /\ wpc' = [wpc EXCEPT ![w] = "exited"]
            /\ UNCHANGED <<wip, ipChan, taken>>
  /\ UNCHANGED <<ips, concurrency, cancelled, consumerOn, ipChanClosed,
                 results, feedIdx, feederPc, wres, scanPc, scanErr, fetched,
                 emitted>>

\* a worker that does not look at ctx.Done() before it calls ScanIP
WorkerCheck_noCancel(w) ==
  /\ wpc[w] = "check"
  /\ wpc' = [wpc EXCEPT ![w] = "scan"]
  /\ UNCHANGED <<ips, concurrency, cancelled, consumerOn, ipChan,
                 ipChanClosed, results, feedIdx, feederPc, wip, wres, scanPc,
                 scanErr, taken, fetched, emitted>>

\* scanner.go:94-98: the select on ctx.Done() with a default case
WorkerCheck(w) ==
  /\ wpc[w] = "check"
  /\ IF cancelled
       THEN /\ wpc' = [wpc EXCEPT ![w] = "exited"]
            /\ wip' = [wip EXCEPT ![w] = NoIP]
       ELSE /\ wpc' = [wpc EXCEPT ![w] = "scan"]
            /\ UNCHANGED wip
  /\ UNCHANGED <<ips, concurrency, cancelled, consumerOn, ipChan,
                 ipChanClosed, results, feedIdx, feederPc, wres, scanPc,
                 scanErr, taken, fetched, emitted>>

\* scanner.go:99-100: ScanIP returns; a nil result is skipped
WorkerScan(w) ==
  /\ wpc[w] = "scan"
  /\ \E fetchErr \in FetchErrs(cancelled) :
       LET r == ScanIP(wip[w], fetchErr)
       IN /\ fetched' = [fetched EXCEPT ![wip[w]] =
                           IF ValidateIP(wip[w]) # NoErr THEN "not called"
                           ELSE IF fetchErr = NoErr THEN "ok" ELSE fetchErr]
          /\ IF r.nil
               THEN /\ wpc' = [wpc EXCEPT ![w] = "recv"]
                    /\ wip' = [wip EXCEPT ![w] = NoIP]
                    /\ UNCHANGED wres
               ELSE /\ wpc' = [wpc EXCEPT ![w] = "send"]
                    /\ wres' = [wres EXCEPT ![w] = r]
                    /\ UNCHANGED wip
  /\ UNCHANGED <<ips, concurrency, cancelled, consumerOn, ipChan,
                 ipChanClosed, results, feedIdx, feederPc, scanPc, scanErr,
                 taken, emitted>>

\* client.go:138-148: GetIPInfo, called by ScanIP for a valid key, reaches
\* the select of its backoff or of limiter.Wait with no case ready and
\* blocks; with a done context the ctx.Done() case is ready and it does not
\* block
WorkerScanWait(w) ==
  /\ wpc[w] = "scan"
  /\ ValidateIP(wip[w]) = NoErr
  /\ ~cancelled
  /\ wpc' = [wpc EXCEPT ![w] = "scan_wait"]
  /\ UNCHANGED <<ips, concurrency, cancelled, consumerOn, ipChan,
                 ipChanClosed, results, feedIdx, feederPc, wip, wres, scanPc,
                 scanErr, taken, fetched, emitted>>

\* client.go:141, 145-148: the backoff timer fires, or a token arrives, and
\* GetIPInfo goes on
WorkerScanWaitEnd(w) ==
  /\ wpc[w] = "scan_wait"
  /\ wpc' = [wpc EXCEPT ![w] = "scan"]
  /\ UNCHANGED <<ips, concurrency, cancelled, consumerOn, ipChan,
                 ipChanClosed, results, feedIdx, feederPc, wip, wres, scanPc,
                 scanErr, taken, fetched, emitted>>

\* client.go:139-140, 146-148, scanner.go:43-48: the blocked select takes
\* ctx.Done(); GetIPInfo returns the context's error and ScanIP the Failure
WorkerScanWaitCancelled(w) ==
  /\ wpc[w] = "scan_wait"
  /\ cancelled
  /\ fetched' = [fetched EXCEPT ![wip[w]] = ErrCanceled]
  /\ wres' = [wres EXCEPT ![w] = ScanIP(wip[w], ErrCanceled)]
  /\ wpc' = [wpc EXCEPT ![w] = "send"]
  /\ UNCHANGED <<ips, concurrency, cancelled, consumerOn, ipChan,
                 ipChanClosed, results, feedIdx, feederPc, wip, scanPc,
                 scanErr, taken, emitted>>

\* scanner.go:101-102: the send on results is chosen
WorkerSend(w) ==
  /\ wpc[w] = "send"
  /\ results < concurrency
  /\ results' = results + 1
  /\ emitted' = [emitted EXCEPT ![wres[w].ip] = Append(@, wres[w].err)]
  /\ wpc' = [wpc EXCEPT ![w] = "recv"]
  /\ wip' = [wip EXCEPT ![w] = NoIP]
  /\ wres' = [wres EXCEPT ![w] = NilResult]
  /\ UNCHANGED <<ips, concurrency, cancelled, consumerOn, ipChan,
                 ipChanClosed, feedIdx, feederPc, scanPc, scanErr, taken,
                 fetched>>

\* scanner.go:103-104: ctx.Done() is chosen and the worker returns
WorkerSendCancelled(w) ==
  /\ wpc[w] = "send"
  /\ cancelled
  /\ wpc' = [wpc EXCEPT ![w] = "exited"]
  /\ wip' = [wip EXCEPT ![w] = NoIP]
  /\ wres' = [wres EXCEPT ![w] = NilResult]
  /\ UNCHANGED <<ips, concurrency, cancelled, consumerOn, ipChan,
                 ipChanClosed, results, feedIdx, feederPc, scanPc, scanErr,
                 taken, fetched, emitted>>

\* scanner.go:114-116: the feeder sends the next ip on ipChan, whose buffer
\* holds concurrency elements
FeederSend ==
  /\ feederPc = "feed"
  /\ feedIdx <= Len(ips)
  /\ Len(ipChan) < concurrency
  /\ ipChan' = Append(ipChan, ips[feedIdx])
  /\ feedIdx' = feedIdx + 1
  /\ UNCHANGED <<ips, concurrency, cancelled, consumerOn, ipChanClosed,
                 results, feederPc, wpc, wip, wres, scanPc, scanErr, taken,
                 fetched, emitted>>

\* a feeder that returns on ctx.Done() and leaves ipChan open
FeederCancelled_noClose ==
  /\ feederPc = "feed"
  /\ feedIdx <= Len(ips)
  /\ cancelled
  /\ feederPc' = "done"
  /\ UNCHANGED <<ips, concurrency, cancelled, consumerOn, ipChan,
                 ipChanClosed, results, feedIdx, wpc, wip, wres, scanPc,
                 scanErr, taken, fetched, emitted>>

\* scanner.go:117-119: the feeder's select takes ctx.Done()
FeederCancelled ==
  /\ feederPc = "feed"
  /\ feedIdx <= Len(ips)
  /\ cancelled
  /\ ipChanClosed' = TRUE
  /\ feederPc' = "done"
  /\ UNCHANGED <<ips, concurrency, cancelled, consumerOn, ipChan, results,
                 feedIdx, wpc, wip, wres, scanPc, scanErr, taken, fetched,
                 emitted>>

\* scanner.go:122: every ip was sent; the feeder closes ipChan
FeederClose ==
  /\ feederPc = "feed"
  /\ feedIdx > Len(ips)
  /\ ipChanClosed' = TRUE
  /\ feederPc' = "done"
  /\ UNCHANGED <<ips, concurrency, cancelled, consumerOn, ipChan, results,
                 feedIdx, wpc, wip, wres, scanPc, scanErr, taken, fetched,
                 emitted>>

\* a ScanIPs that returns without waiting for its workers
ScanReturn_noWait ==
  /\ scanPc = "running"
  /\ scanPc' = "returned"
  /\ scanErr' = IF cancelled THEN ErrCanceled ELSE NoErr
  /\ UNCHANGED <<ips, concurrency, cancelled, consumerOn, ipChan,
                 ipChanClosed, results, feedIdx, feederPc, wpc, wip, wres,
                 taken, fetched, emitted>>

\* scanner.go:125-126: wg.Wait() returns once every worker is done, and
\* ScanIPs returns ctx.Err()
ScanReturn ==
  /\ scanPc = "running"
  /\ \A w \in Workers : wpc[w] = "exited"
  /\ scanPc' = "returned"
  /\ scanErr' = IF cancelled THEN ErrCanceled ELSE NoErr
  /\ UNCHANGED <<ips, concurrency, cancelled, consumerOn, ipChan,
                 ipChanClosed, results, feedIdx, feederPc, wpc, wip, wres,
                 taken, fetched, emitted>>

\* the context passed to ScanIPs is cancelled while it runs
CancelScan ==
  /\ scanPc = "running"
  /\ ~cancelled
  /\ cancelled' = TRUE
  /\ UNCHANGED <<ips, concurrency, consumerOn, ipChan, ipChanClosed, results,
                 feedIdx, feederPc, wpc, wip, wres, scanPc, scanErr, taken,
                 fetched, emitted>>

\* main.go:215: the consumer receives a result
Consume ==
  /\ consumerOn
  /\ results > 0
  /\ results' = results - 1
  /\ UNCHANGED <<ips, concurrency, cancelled, consumerOn, ipChan,
                 ipChanClosed, feedIdx, feederPc, wpc, wip, wres, scanPc,
                 scanErr, taken, fetched, emitted>>

\* the consumer stops reading the results channel
ConsumerStop ==
  /\ consumerOn
  /\ scanPc = "running"
  /\ consumerOn' = FALSE
  /\ UNCHANGED <<ips, concurrency, cancelled, ipChan, ipChanClosed, results,
                 feedIdx, feederPc, wpc, wip, wres, scanPc, scanErr, taken,
                 fetched, emitted>>

\* lists of k distinct keys
RECURSIVE UniqueLists(_)
UniqueLists(k) ==
  IF k = 0 THEN {<<>>}
  ELSE {Append(l, x) : l \in UniqueLists(k - 1), x \in ScanKeys} \cap
       {l \in Seq(ScanKeys) : \A i, j \in 1..Len(l) : i # j => l[i] # l[j]}

\* scanner.go:84-110: ScanIPs(ctx, ips, concurrency, results) has made ipChan
\* and started its workers and the feeder; the results channel has the
\* capacity main.go:209 gives it
ScanInit ==
  /\ ips \in UNION {UniqueLists(k) : k \in 0..MaxIPs}
  /\ concurrency \in 0..MaxWorkers
  /\ cancelled = FALSE
  /\ consumerOn = TRUE
  /\ ipChan = <<>>
  /\ ipChanClosed = FALSE
  /\ results = 0
  /\ feedIdx = 1
  /\ feederPc = "feed"
  /\ wpc = [w \in WorkerIds |-> IF w <= concurrency THEN "recv" ELSE "none"]
  /\ wip = [w \in WorkerIds |-> NoIP]
  /\ wres = [w \in WorkerIds |-> NilResult]
  /\ scanPc = "running"
  /\ scanErr = NoErr
  /\ taken = {}
  /\ fetched = [k \in ScanKeys |-> "none"]
  /\ emitted = [k \in ScanKeys |-> <<>>]

\* scanner.go:84-110: ScanIPs called with the keys 0, 1, ... in this order (a
\* list of distinct keys in another order behaves alike)
ScanOrderedInit ==
  /\ \E k \in 0..MaxIPs : ips = [i \in 1..k |-> i - 1]
  /\ concurrency \in 0..MaxWorkers
  /\ cancelled = FALSE
  /\ consumerOn = TRUE
  /\ ipChan = <<>>
  /\ ipChanClosed = FALSE
  /\ results = 0
  /\ feedIdx = 1
  /\ feederPc = "feed"
  /\ wpc = [w \in WorkerIds |-> IF w <= concurrency THEN "recv" ELSE "none"]
  /\ wip = [w \in WorkerIds |-> NoIP]
  /\ wres = [w \in WorkerIds |-> NilResult]
  /\ scanPc = "running"
  /\ scanErr = NoErr
  /\ taken = {}
  /\ fetched = [k \in ScanKeys |-> "none"]
  /\ emitted = [k \in ScanKeys |-> <<>>]

\* the scanner when a specification does not use it
ScanUnused ==
  /\ ips = <<>>
  /\ concurrency = 0
  /\ cancelled = FALSE
  /\ consumerOn = FALSE
  /\ ipChan = <<>>
  /\ ipChanClosed = FALSE
  /\ results = 0
  /\ feedIdx = 1
  /\ feederPc = "done"
  /\ wpc = [w \in WorkerIds |-> "none"]
  /\ wip = [w \in WorkerIds |-> NoIP]
  /\ wres = [w \in WorkerIds |-> NilResult]
  /\ scanPc = "returned"
  /\ scanErr = NoErr
  /\ taken = {}
  /\ fetched = [k \in ScanKeys |-> "none"]
  /\ emitted = [k \in ScanKeys |-> <<>>]

ScanWorkerRecv == (\E w \in Workers : WorkerRecv(w)) /\ UNCHANGED notScan
ScanWorkerCheck == (\E w \in Workers : WorkerCheck(w)) /\ UNCHANGED notScan
ScanWorkerScan == (\E w \in Workers : WorkerScan(w)) /\ UNCHANGED notScan
ScanWorkerSend == (\E w \in Workers : WorkerSend(w)) /\ UNCHANGED notScan
ScanWorkerSendCancelled ==
  (\E w \in Workers : WorkerSendCancelled(w)) /\ UNCHANGED notScan
ScanFeederSend == FeederSend /\ UNCHANGED notScan
ScanFeederCancelled == FeederCancelled /\ UNCHANGED notScan
ScanFeederClose == FeederClose /\ UNCHANGED notScan
ScanScanReturn == ScanReturn /\ UNCHANGED notScan
ScanCancel == CancelScan /\ UNCHANGED notScan
ScanConsume == Consume /\ UNCHANGED notScan
ScanConsumerStop == ConsumerStop /\ UNCHANGED notScan

ScanNext ==
  \/ ScanWorkerRecv
  \/ ScanWorkerCheck
  \/ ScanWorkerScan
  \/ ScanWorkerSend
  \/ ScanWorkerSendCancelled
  \/ ScanFeederSend
  \/ ScanFeederCancelled
  \/ ScanFeederClose
  \/ ScanScanReturn
  \/ ScanCancel
  \/ ScanConsume
  \/ ScanConsumerStop

ScanWorkerScanWait ==
  (\E w \in Workers : WorkerScanWait(w)) /\ UNCHANGED notScan
ScanWorkerScanWaitEnd ==
  (\E w \in Workers : WorkerScanWaitEnd(w)) /\ UNCHANGED notScan
ScanWorkerScanWaitCancelled ==
  (\E w \in Workers : WorkerScanWaitCancelled(w)) /\ UNCHANGED notScan

\* ScanIPs with the lookups of its workers blocking in GetIPInfo's waits
ScanWaitNext ==
  \/ ScanWorkerRecv
  \/ ScanWorkerCheck
  \/ ScanWorkerScan
  \/ ScanWorkerScanWait
  \/ ScanWorkerScanWaitEnd
  \/ ScanWorkerScanWaitCancelled
  \/ ScanWorkerSend
  \/ ScanWorkerSendCancelled
  \/ ScanFeederSend
  \/ ScanFeederCancelled
  \/ ScanFeederClose
  \/ ScanScanReturn
  \/ ScanCancel
  \/ ScanConsume
  \/ ScanConsumerStop

\* the steps a worker goroutine takes by itself when it is scheduled: every
\* step but the end of a wait, which needs the timer or a token
WorkerRuns(w) ==
  /\ \/ WorkerRecv(w)
     \/ WorkerCheck(w)
     \/ WorkerScan(w)
     \/ WorkerScanWaitCancelled(w)
     \/ WorkerSend(w)
     \/ WorkerSendCancelled(w)
  /\ UNCHANGED notScan

\* the steps of the feeder goroutine
FeederRuns ==
  /\ \/ FeederSend
     \/ FeederCancelled
     \/ FeederClose
  /\ UNCHANGED notScan

\* ------------------------------------------------------------------------
\* ScanInput
\* ------------------------------------------------------------------------
notInput == <<cacheVars, rlVars, clientVars, fetchVars, outVars, configVars,
  backoffVars,
  scanIPVars,
  fetchersVars>>

\* the inputs of ScanInput: cidr tells whether net.ParseCIDR accepts the
\* input; an input that it accepts stands for the addresses addrs (what
\* mapcidr.IPAddresses returns for it), another input is the key it is read
\* as
ScanInputs ==
  {[cidr |-> FALSE, key |-> k, addrs |-> <<>>] : k \in ScanKeys} \cup
  {[cidr |-> TRUE, key |-> NoIP, addrs |-> [i \in 1..n |-> i]] :
     n \in 1..MaxIPs}

\* validator.go:40-43
IsCIDR(in) == in.cidr

\* scanner.go:71: mapcidr.IPAddresses(cidr)
IPAddresses(in) == in.addrs

\* scanner.go:131-132, 63-110: the input is a range; ScanCIDR validates it
\* (validator.go:25-37 accepts what IsCIDR accepts), expands it and calls
\* ScanIPs, which makes ipChan and starts its workers and the feeder
ScanInputRange ==
  /\ scanPc = "input"
  /\ IsCIDR(input)
  /\ ips' = IPAddresses(input)
  /\ wpc' = [w \in WorkerIds |-> IF w <= concurrency THEN "recv" ELSE "none"]
  /\ feederPc' = "feed"
  /\ feedIdx' = 1
  /\ scanPc' = "running"
  /\ UNCHANGED <<concurrency, cancelled, consumerOn, ipChan, ipChanClosed,
                 results, wip, wres, scanErr, taken, fetched, emitted>>
  /\ UNCHANGED inputVars

\* scanner.go:131, 135: the input is no range and ScanInput calls ScanIP for
\* it
ScanInputSingle ==
  /\ scanPc = "input"
  /\ ~IsCIDR(input)
  /\ scanPc' = "single"
  /\ UNCHANGED <<ips, concurrency, cancelled, consumerOn, ipChan,
                 ipChanClosed, results, feedIdx, feederPc, wpc, wip, wres,
                 scanErr, taken, fetched, emitted>>
  /\ UNCHANGED inputVars

\* scanner.go:135-136: ScanIP returns; its result is never nil
SingleScan ==
  /\ scanPc = "single"
  /\ \E fetchErr \in FetchErrs(cancelled) :
       /\ sres' = ScanIP(input.key, fetchErr)
       /\ fetched' = [fetched EXCEPT ![input.key] =
                        IF ValidateIP(input.key) # NoErr THEN "not called"
                        ELSE IF fetchErr = NoErr THEN "ok" ELSE fetchErr]
  /\ scanPc' = "single_send"
  /\ UNCHANGED <<ips, concurrency, cancelled, consumerOn, ipChan,
                 ipChanClosed, results, feedIdx, feederPc, wpc, wip, wres,
                 scanErr, taken, emitted>>
  /\ UNCHANGED input

\* scanner.go:137-138, 144: the send on results is chosen, and ScanInput
\* returns the error of ScanIP; the channel holds concurrency results
\* (main.go:209), and with no buffer the send is a hand-over to the reader
SingleSend ==
  /\ scanPc = "single_send"
  /\ \/ /\ results < concurrency
        /\ results' = results + 1
     \/ /\ concurrency = 0
        /\ consumerOn
        /\ results' = results
  /\ emitted' = [emitted EXCEPT ![sres.ip] = Append(@, sres.err)]
  /\ scanErr' = sres.err
  /\ scanPc' = "returned"
  /\ UNCHANGED <<ips, concurrency, cancelled, consumerOn, ipChan,
                 ipChanClosed, feedIdx, feederPc, wpc, wip, wres, taken,
                 fetched>>
  /\ UNCHANGED inputVars

\* scanner.go:139-140: ctx.Done() is chosen and ScanInput returns ctx.Err()
SingleSendCancelled ==
  /\ scanPc = "single_send"
  /\ cancelled
  /\ scanErr' = ErrCanceled
  /\ scanPc' = "returned"
  /\ UNCHANGED <<ips, concurrency, cancelled, consumerOn, ipChan,
                 ipChanClosed, results, feedIdx, feederPc, wpc, wip, wres,
                 taken, fetched, emitted>>
  /\ UNCHANGED inputVars

\* the context passed to ScanInput is cancelled before ScanIPs runs
CancelInput ==
  /\ scanPc \in {"input", "single", "single_send"}
  /\ ~cancelled
  /\ cancelled' = TRUE
  /\ UNCHANGED <<ips, concurrency, consumerOn, ipChan, ipChanClosed, results,
                 feedIdx, feederPc, wpc, wip, wres, scanPc, scanErr, taken,
                 fetched, emitted>>
  /\ UNCHANGED inputVars

\* scanner.go:130: ScanInput(ctx, input, concurrency, results) is called; the
\* results channel has its reader (main.go:209-223)
InputInit ==
  /\ input \in ScanInputs
  /\ sres = NilResult
  /\ ips = <<>>
  /\ concurrency \in 0..MaxWorkers
  /\ cancelled = FALSE
  /\ consumerOn = TRUE
  /\ ipChan = <<>>
  /\ ipChanClosed = FALSE
  /\ results = 0
  /\ feedIdx = 1
  /\ feederPc = "none"
  /\ wpc = [w \in WorkerIds |-> "none"]
  /\ wip = [w \in WorkerIds |-> NoIP]
  /\ wres = [w \in WorkerIds |-> NilResult]
  /\ scanPc = "input"
  /\ scanErr = NoErr
  /\ taken = {}
  /\ fetched = [k \in ScanKeys |-> "none"]
  /\ emitted = [k \in ScanKeys |-> <<>>]

\* ScanInput when a specification does not use it
InputUnused ==
  /\ input = [cidr |-> FALSE, key |-> NoIP, addrs |-> <<>>]
  /\ sres = NilResult

InputScanInputRange == ScanInputRange /\ UNCHANGED notInput
InputScanInputSingle == ScanInputSingle /\ UNCHANGED notInput
InputSingleScan == SingleScan /\ UNCHANGED notInput
InputSingleSend == SingleSend /\ UNCHANGED notInput
InputSingleSendCancelled == SingleSendCancelled /\ UNCHANGED notInput
InputCancel == CancelInput /\ UNCHANGED notInput

InputNext ==
  \/ InputScanInputRange
  \/ InputScanInputSingle
  \/ InputSingleScan
  \/ InputSingleSend
  \/ InputSingleSendCancelled
  \/ InputCancel
  \/ ScanWorkerRecv
  \/ ScanWorkerCheck
  \/ ScanWorkerScan
  \/ ScanWorkerSend
  \/ ScanWorkerSendCancelled
  \/ ScanFeederSend
  \/ ScanFeederCancelled
  \/ ScanFeederClose
  \/ ScanScanReturn
  \/ ScanCancel
  \/ ScanConsume
  \/ ScanConsumerStop

\* ------------------------------------------------------------------------
\* The backoff of GetIPInfo
\* ------------------------------------------------------------------------
\* the largest max_retries tried
MaxBackoffRetries == 36

\* time.Duration is an int64 (client.go:25)
DurationBits == 64

notBackoff == <<cacheVars, rlVars, clientVars, scanVars, fetchVars, outVars,
                configVars, inputVars,
  scanIPVars,
  fetchersVars>>

\* a time.Duration is an int64 count of nanoseconds: here the sequence of
\* its bits in two's complement, bit 0 the lowest
BitIdx == 0..(DurationBits - 1)

Zero64 == [i \in BitIdx |-> 0]

\* the int64 of a number below 2^31
Bits(n) == [i \in BitIdx |-> IF i <= 30 THEN (n \div 2^i) % 2 ELSE 0]

\* x << s on an int64: the bits that leave the word are lost
Shl(x, s) == [i \in BitIdx |-> IF i >= s THEN x[i - s] ELSE 0]

\* the carry into bit i of x + y
RECURSIVE Carry(_, _, _)
Carry(x, y, i) ==
  IF i = 0 THEN 0 ELSE (x[i - 1] + y[i - 1] + Carry(x, y, i - 1)) \div 2

\* x + y on int64, which wraps around
Add(x, y) == [i \in BitIdx |-> (x[i] + y[i] + Carry(x, y, i)) % 2]

\* x * y on int64, which wraps around: the sum of x << i over the bits i set
\* in y
RECURSIVE MulFrom(_, _, _)
MulFrom(x, y, i) ==
  IF i = DurationBits THEN Zero64
  ELSE IF y[i] = 1 THEN Add(Shl(x, i), MulFrom(x, y, i + 1))
  ELSE MulFrom(x, y, i + 1)

Mul(x, y) == MulFrom(x, y, 0)

\* the sign and the order of int64 values
Negative(x) == x[DurationBits - 1] = 1
Positive(x) == ~Negative(x) /\ x # Zero64
Less(x, y) ==
  IF x[DurationBits - 1] # y[DurationBits - 1] THEN Negative(x)
  ELSE \E i \in BitIdx :
         /\ x[i] < y[i]
         /\ \A j \in BitIdx : j > i => x[j] = y[j]

\* client.go:135: c.backoff * time.Duration(1<<uint(attempt-1))
BackoffDuration(b, n) == Mul(b, Shl(Bits(1), n - 1))

\* the values of retry_backoff: 1ns, 1ms and the default of 2s
\* (client.go:108, config.go:57), in nanoseconds
Backoffs == {Bits(1), Bits(1000000), Bits(2000000000)}

\* client.go:133-135: the loop goes on to a retry and computes its backoff
NextBackoff ==
  /\ backoffAttempt < backoffRetries
  /\ backoffAttempt' = backoffAttempt + 1
  /\ backoffDuration' = BackoffDuration(backoff, backoffAttempt')
  /\ prevDuration' = backoffDuration
  /\ UNCHANGED <<backoff, backoffRetries>>

\* client.go:74-80, 133: a client configured by WithRetries begins a call
\* with attempt 0, for which there is no backoff
BackoffInit ==
  /\ backoff \in Backoffs
  /\ backoffRetries \in 0..MaxBackoffRetries
  /\ backoffAttempt = 0
  /\ backoffDuration = Zero64
  /\ prevDuration = Zero64

\* the backoff when a specification does not use it
BackoffUnused ==
  /\ backoff = Zero64
  /\ backoffRetries = 0
  /\ backoffAttempt = 0
  /\ backoffDuration = Zero64
  /\ prevDuration = Zero64

BackoffNextBackoff == NextBackoff /\ UNCHANGED notBackoff

BackoffNext == BackoffNextBackoff

\* ------------------------------------------------------------------------
\* Client.GetIPInfo
\* ------------------------------------------------------------------------
\* the goroutine calling GetIPInfo is caller 1 of the cache and waiter 1 of
\* the limiter; ctxDone[Fetcher] is the context it passes
Fetcher == 1

\* what one upstream exchange can end with (client.go:179-213): a result, a
\* 429, another status, a transport error, a body that does not parse
FetchFailures == {"e429", "status", "transport", "decode"}
FetchOutcomes == {"ok"} \cup FetchFailures

NoGRet == [kind |-> "none", err |-> "", attempts |-> 0, cause |-> "none",
           value |-> 0, cached |-> FALSE]

\* return info, nil
RetOk(value, cached) ==
  [kind |-> "ok", err |-> "", attempts |-> 0, cause |-> "none",
   value |-> value, cached |-> cached]

\* client.go:140, 161: return nil, ctx.Err()
RetCtx ==
  [kind |-> "err", err |-> "ctx", attempts |-> 0, cause |-> "none",
   value |-> 0, cached |-> FALSE]

\* client.go:147: return nil, fmt.Errorf("rate limiter: %w", err)
RetLimiter ==
  [kind |-> "err", err |-> "limiter_ctx", attempts |-> 0, cause |-> "none",
   value |-> 0, cached |-> FALSE]

\* client.go:167: fmt.Errorf("failed after %d attempts: %w", maxRetries+1,
\* lastErr)
RetExhausted(n, cause) ==
  [kind |-> "err", err |-> "exhausted", attempts |-> n, cause |-> cause,
   value |-> 0, cached |-> FALSE]

\* the errors that report the cancellation of the context
CancelErrs == {"ctx", "limiter_ctx"}

\* GetIPInfo is called (client.go:121-123)
GetIPInfoCall(ip) ==
  /\ gpc = "idle"
  /\ gip' = ip
  /\ gpc' = IF hasCache THEN "cache_get" ELSE "loop"
  /\ attempt' = 0
  /\ lastErr' = "none"
  /\ gret' = NoGRet
  /\ exchanges' = 0
  /\ waits' = 0
  /\ sets' = 0
  /\ lateExchange' = FALSE
  /\ cache0' = [items |-> items, keyOrder |-> keyOrder]
  /\ UNCHANGED <<maxRetries, hasCache, cacheVars, rlVars>>

\* client.go:124: c.cache.Get(ip), the read under RLock; a missing key is a
\* miss and the call goes on to the retry loop
GetIPInfoCacheGet ==
  /\ gpc = "cache_get"
  /\ GetStart(Fetcher, gip)
  /\ gpc' = IF gip \in DOMAIN items THEN "cache_get" ELSE "loop"
  /\ UNCHANGED <<maxRetries, hasCache, gip, attempt, lastErr, gret, exchanges,
                 waits, sets, lateExchange, cache0, rlVars>>

\* client.go:124: c.cache.Get(ip), the expiry test
GetIPInfoCacheCheck ==
  /\ gpc = "cache_get"
  /\ GetCheck(Fetcher)
  /\ UNCHANGED <<fetchVars, rlVars>>

\* client.go:124: c.cache.Get(ip) purges the expired entry and reports a miss
GetIPInfoCacheMiss ==
  /\ gpc = "cache_get"
  /\ GetPurge(Fetcher)
  /\ gpc' = "loop"
  /\ UNCHANGED <<maxRetries, hasCache, gip, attempt, lastErr, gret, exchanges,
                 waits, sets, lateExchange, cache0, rlVars>>

\* a cache hit that still takes a token of the limiter
GetIPInfoCacheHit_limited ==
  /\ gpc = "cache_get"
  /\ rl.tokens > 0
  /\ GetPromote(Fetcher)
  /\ gpc' = "idle"
  /\ gret' = RetOk(citem[Fetcher].value, TRUE)
  /\ rl' = TakeToken(rl)
  /\ waits' = waits + 1
  /\ UNCHANGED <<maxRetries, hasCache, gip, attempt, lastErr, exchanges,
                 sets, lateExchange, cache0>>
  /\ UNCHANGED <<rpc, ctxDone, rret, kpc, closeCalls, winOpen, winTicks,
                 winNoBlock>>

\* client.go:124-127: c.cache.Get(ip) hits and GetIPInfo returns the cached
\* info
GetIPInfoCacheHit ==
  /\ gpc = "cache_get"
  /\ GetPromote(Fetcher)
  /\ gpc' = "idle"
  /\ gret' = RetOk(citem[Fetcher].value, TRUE)
  /\ UNCHANGED <<maxRetries, hasCache, gip, attempt, lastErr, exchanges,
                 waits, sets, lateExchange, cache0, rlVars>>

\* a retry loop that makes one attempt too few
MoreAttempts_offByOne(a, m) == a < m

\* client.go:133: the loop test attempt <= c.maxRetries
MoreAttempts(a, m) == a <= m

\* client.go:133-134, 167: the loop test; the loop goes on to the backoff of
\* a retry or straight to the limiter, or ends with the error of the
\* exhausted retries
GetIPInfoLoop ==
  /\ gpc = "loop"
  /\ IF MoreAttempts(attempt, maxRetries)
       THEN /\ gpc' = IF attempt > 0 THEN "backoff" ELSE "wait"
            /\ UNCHANGED gret
       ELSE /\ gpc' = "idle"
            /\ gret' = RetExhausted(maxRetries + 1, lastErr)
  /\ UNCHANGED <<maxRetries, hasCache, gip, attempt, lastErr, exchanges,
                 waits, sets, lateExchange, cache0, cacheVars, rlVars>>

\* client.go:138-142: the select of the backoff; with the context done and
\* the timer expired both, either case may be taken
GetIPInfoBackoff ==
  /\ gpc = "backoff"
  /\ \/ /\ ctxDone[Fetcher]
        /\ gpc' = "idle"
        /\ gret' = RetCtx
     \/ /\ gpc' = "wait"
        /\ UNCHANGED gret
  /\ UNCHANGED <<maxRetries, hasCache, gip, attempt, lastErr, exchanges,
                 waits, sets, lateExchange, cache0, cacheVars, rlVars>>

\* client.go:146-148: c.limiter.Wait(ctx) is called
GetIPInfoWait ==
  /\ gpc = "wait"
  /\ Wait(Fetcher)
  /\ waits' = waits + 1
  /\ IF rpc'[Fetcher] = "blocked"
       THEN gpc' = "wait_blocked" /\ UNCHANGED gret
       ELSE IF rret' = "ctx_err"
         THEN gpc' = "idle" /\ gret' = RetLimiter
         ELSE gpc' = "fetch" /\ UNCHANGED gret
  /\ UNCHANGED <<maxRetries, hasCache, gip, attempt, lastErr, exchanges,
                 sets, lateExchange, cache0, cacheVars>>

\* client.go:146-148: the blocked c.limiter.Wait(ctx) returns
GetIPInfoWaitWake ==
  /\ gpc = "wait_blocked"
  /\ WaitWake(Fetcher)
  /\ IF rret' = "ctx_err"
       THEN gpc' = "idle" /\ gret' = RetLimiter
       ELSE gpc' = "fetch" /\ UNCHANGED gret
  /\ UNCHANGED <<maxRetries, hasCache, gip, attempt, lastErr, exchanges,
                 waits, sets, lateExchange, cache0, cacheVars>>

\* a request that does not carry the context
RequestSent_noCtx(done) == TRUE

\* client.go:174, 181: the request carries ctx, and http.Client.Do of a
\* request whose context is done already returns the context's error
\* without an exchange with the server
RequestSent(done) == ~done

\* client.go:150, 171-184: fetchIPInfo is called and sends its request; when
\* it fails at once for the done context, ctx.Err() is returned
\* (client.go:160-162)
GetIPInfoFetchStart ==
  /\ gpc = "fetch"
  /\ IF RequestSent(ctxDone[Fetcher])
       THEN /\ exchanges' = exchanges + 1
            /\ lateExchange' = (lateExchange \/ ctxDone[Fetcher])
            /\ gpc' = "inflight"
            /\ UNCHANGED <<lastErr, gret>>
       ELSE /\ lastErr' = "transport"
            /\ gpc' = "idle"
            /\ gret' = RetCtx
            /\ UNCHANGED <<exchanges, lateExchange>>
  /\ UNCHANGED <<maxRetries, hasCache, gip, attempt, waits, sets, cache0,
                 cacheVars, rlVars>>

\* a client that never caches
ShouldCache_never(outcome) == FALSE

\* a client that caches whatever the exchange ended with
ShouldCache_always(outcome) == hasCache

\* client.go:151-154: the result is cached when the exchange succeeded and a
\* cache is set
ShouldCache(outcome) == outcome = "ok" /\ hasCache

\* client.go:150-165: the exchange ends. A result is cached and returned; a
\* failure returns ctx.Err() when the context is done and otherwise lets the
\* loop go to its next attempt
GetIPInfoFetchEnd(outcome, value) ==
  /\ gpc = "inflight"
  /\ lastErr' = IF outcome = "ok" THEN "none" ELSE outcome
  /\ IF ShouldCache(outcome)
       THEN Set(Fetcher, gip, value) /\ sets' = sets + 1
       ELSE UNCHANGED <<cacheVars, sets>>
  /\ IF outcome = "ok"
       THEN /\ gpc' = "idle"
            /\ gret' = RetOk(value, FALSE)
            /\ UNCHANGED attempt
       ELSE IF ctxDone[Fetcher]
         THEN /\ gpc' = "idle"
              /\ gret' = RetCtx
              /\ UNCHANGED attempt
         ELSE /\ gpc' = "loop"
              /\ attempt' = attempt + 1
              /\ UNCHANGED gret
  /\ UNCHANGED <<maxRetries, hasCache, gip, exchanges, waits, lateExchange,
                 cache0, rlVars>>

\* the context passed to GetIPInfo is cancelled
GetIPInfoCancel ==
  /\ CancelWait(Fetcher)
  /\ UNCHANGED <<fetchVars, cacheVars>>

\* the capacity and the time-to-live of the client's cache, and the rates of
\* its limiter
FetchCacheSize == 1
FetchCacheTTL == 0
FetchRates == {1, 2}

\* a Client as NewClient and its options leave it (client.go:93-118), with
\* its limiter and, when hasCache, its cache
FetchInit ==
  /\ maxRetries \in 0..MaxRetries
  /\ hasCache \in BOOLEAN
  /\ rl.cap \in FetchRates
  /\ gpc = "idle"
  /\ gip = NoKey
  /\ attempt = 0
  /\ lastErr = "none"
  /\ gret = NoGRet
  /\ exchanges = 0
  /\ waits = 0
  /\ sets = 0
  /\ lateExchange = FALSE
  /\ cache0 = [items |-> items, keyOrder |-> keyOrder]

\* a Client whose maxRetries is any integer the configuration supplies
\* (config.go:26, main.go:88, client.go:74-80): WithRetries stores the value
\* as it is, negative ones included
FetchInitAnyRetries ==
  /\ maxRetries \in -2..MaxRetries
  /\ hasCache \in BOOLEAN
  /\ rl.cap \in FetchRates
  /\ gpc = "idle"
  /\ gip = NoKey
  /\ attempt = 0
  /\ lastErr = "none"
  /\ gret = NoGRet
  /\ exchanges = 0
  /\ waits = 0
  /\ sets = 0
  /\ lateExchange = FALSE
  /\ cache0 = [items |-> items, keyOrder |-> keyOrder]

\* cache.go:25-32: the cache of the client, used by the goroutine calling
\* GetIPInfo
FetchCacheInit ==
  /\ items = [j \in {} |-> NoItem]
  /\ keyOrder = <<>>
  /\ maxSize = FetchCacheSize
  /\ ttl = FetchCacheTTL
  /\ now = 0
  /\ callers = {Fetcher}
  /\ askKeys = ConcKeys
  /\ askValues = Values
  /\ track = FALSE
  /\ cpc = [t \in CallerIds |-> "idle"]
  /\ ckey = [t \in CallerIds |-> NoKey]
  /\ citem = [t \in CallerIds |-> NoItem]
  /\ cret = NoRet
  /\ recency = <<>>
  /\ insOrder = <<>>
  /\ evictHist = "none"

\* GetIPInfo when a specification does not use it
FetchUnused ==
  /\ maxRetries = 0
  /\ hasCache = FALSE
  /\ gpc = "idle"
  /\ gip = NoKey
  /\ attempt = 0
  /\ lastErr = "none"
  /\ gret = NoGRet
  /\ exchanges = 0
  /\ waits = 0
  /\ sets = 0
  /\ lateExchange = FALSE
  /\ cache0 = [items |-> [j \in {} |-> NoItem], keyOrder |-> <<>>]

FetchCall ==
  (\E ip \in askKeys : GetIPInfoCall(ip)) /\ UNCHANGED notFetch
FetchCacheGet == GetIPInfoCacheGet /\ UNCHANGED notFetch
FetchCacheCheck == GetIPInfoCacheCheck /\ UNCHANGED notFetch
FetchCacheMiss == GetIPInfoCacheMiss /\ UNCHANGED notFetch
FetchCacheHit == GetIPInfoCacheHit /\ UNCHANGED notFetch
FetchLoop == GetIPInfoLoop /\ UNCHANGED notFetch
FetchBackoff == GetIPInfoBackoff /\ UNCHANGED notFetch
FetchWait == GetIPInfoWait /\ UNCHANGED notFetch
FetchWaitWake == GetIPInfoWaitWake /\ UNCHANGED notFetch
FetchFetchStart == GetIPInfoFetchStart /\ UNCHANGED notFetch
FetchFetchEnd ==
  (\E outcome \in FetchOutcomes, value \in askValues :
     GetIPInfoFetchEnd(outcome, value)) /\ UNCHANGED notFetch
FetchCancel == GetIPInfoCancel /\ UNCHANGED notFetch

FetchNext ==
  \/ FetchCall
  \/ FetchCacheGet
  \/ FetchCacheCheck
  \/ FetchCacheMiss
  \/ FetchCacheHit
  \/ FetchLoop
  \/ FetchBackoff
  \/ FetchWait
  \/ FetchWaitWake
  \/ FetchFetchStart
  \/ FetchFetchEnd
  \/ FetchCancel
  \/ RLPeriod
  \/ RLRegenTick
  \/ RLRefill
  \/ TickClock

\* ------------------------------------------------------------------------
\* Lookup results and their way to the output
\* ------------------------------------------------------------------------
MaxLookups == 2

\* the addresses asked for and an input that is no address
Addrs == {"192.0.2.1", "192.0.2.2"}
BadAddr == "bogus"

\* models.ShodanIPInfo (types.go:4-11); a nil slice and an empty one are <<>>
ShodanIPInfo(ip, ports, hostnames, tags, cpes, vulns) ==
  [nil |-> FALSE, ip |-> ip, ports |-> ports, hostnames |-> hostnames,
   tags |-> tags, cpes |-> cpes, vulns |-> vulns]

\* a nil *models.ShodanIPInfo
NilInfo ==
  [nil |-> TRUE, ip |-> "", ports |-> <<>>, hostnames |-> <<>>,
   tags |-> <<>>, cpes |-> <<>>, vulns |-> <<>>]

\* types.go:14-16
IsEmpty(s) == Len(s.ports) = 0 /\ Len(s.hostnames) = 0 /\ Len(s.vulns) = 0

\* the bodies of upstream responses: empty, the literal {}, an empty JSON
\* object written with a space, objects with one or several fields, and a
\* truncated object
BodyPorts == "{\"ip\":\"192.0.2.1\",\"ports\":[80,443]}"
BodyHostnames == "{\"ip\":\"192.0.2.1\",\"hostnames\":[\"a.example\"]}"
BodyVulns == "{\"ip\":\"192.0.2.1\",\"vulns\":[\"CVE-2021-1234\"]}"
BodyTagsCpes ==
  "{\"ip\":\"192.0.2.1\",\"tags\":[\"cloud\"],\"cpes\":[\"cpe:/a:v:p\"]}"
BodyTruncated == "{\"ip\":"
Bodies == {"", "{}", "{ }", BodyPorts, BodyHostnames, BodyVulns,
           BodyTagsCpes, BodyTruncated}

\* client.go:207-210: jsoniter.Unmarshal(body, &info) on the bodies above;
\* fields the object lacks keep their zero value
Unmarshal(body) ==
  CASE body = "{}" \/ body = "{ }" ->
         [err |-> FALSE, info |-> ShodanIPInfo("", <<>>, <<>>, <<>>, <<>>, <<>>)]
    [] body = BodyPorts ->
         [err |-> FALSE,
          info |-> ShodanIPInfo("192.0.2.1", <<80, 443>>, <<>>, <<>>, <<>>, <<>>)]
    [] body = BodyHostnames ->
         [err |-> FALSE,
          info |-> ShodanIPInfo("192.0.2.1", <<>>, <<"a.example">>, <<>>, <<>>,
                                <<>>)]
    [] body = BodyVulns ->
         [err |-> FALSE,
          info |-> ShodanIPInfo("192.0.2.1", <<>>, <<>>, <<>>, <<>>,
                                <<"CVE-2021-1234">>)]
    [] body = BodyTagsCpes ->
         [err |-> FALSE,
          info |-> ShodanIPInfo("192.0.2.1", <<>>, <<>>, <<"cloud">>,
                                <<"cpe:/a:v:p">>, <<>>)]
    [] OTHER -> [err |-> TRUE, info |-> NilInfo]

\* what httpClient.Do gives back (client.go:181-184): a transport error or a
\* response with a status and a body
Responses ==
  {[transport |-> TRUE, status |-> 0, body |-> ""]} \cup
  {[transport |-> FALSE, status |-> st, body |-> ""] : st \in {429, 500}} \cup
  {[transport |-> FALSE, status |-> 200, body |-> b] : b \in Bodies}

ErrTransport == "executing request"
Err429 == "rate limited (429)"
ErrStatus == "unexpected status code"
ErrDecode == "parsing JSON"

\* fetchIPInfo that takes an empty body for a failure
fetchIPInfo_emptyIsError(ip, resp) ==
  IF resp.transport THEN [info |-> NilInfo, err |-> ErrTransport]
  ELSE IF resp.status = 429 THEN [info |-> NilInfo, err |-> Err429]
  ELSE IF resp.status # 200 THEN [info |-> NilInfo, err |-> ErrStatus]
  ELSE IF Unmarshal(resp.body).err THEN [info |-> NilInfo, err |-> ErrDecode]
  ELSE [info |-> Unmarshal(resp.body).info, err |-> NoErr]

\* client.go:171-214: fetchIPInfo(ctx, ip) when the exchange ends with resp
fetchIPInfo(ip, resp) ==
  IF resp.transport THEN [info |-> NilInfo, err |-> ErrTransport]
  ELSE IF resp.status = 429 THEN [info |-> NilInfo, err |-> Err429]
  ELSE IF resp.status # 200 THEN [info |-> NilInfo, err |-> ErrStatus]
  ELSE IF resp.body = "" \/ resp.body = "{}"
    THEN [info |-> ShodanIPInfo(ip, <<>>, <<>>, <<>>, <<>>, <<>>),
          err |-> NoErr]
  ELSE IF Unmarshal(resp.body).err THEN [info |-> NilInfo, err |-> ErrDecode]
  ELSE [info |-> Unmarshal(resp.body).info, err |-> NoErr]

\* models.ScanResult (types.go:27-32)
ScanResult(ip, info, err) == [ip |-> ip, info |-> info, err |-> err]
NoResult == ScanResult("", NilInfo, NoErr)

\* validator.go:10-22 on the inputs above
ValidAddr(ip) == ip \in Addrs

\* scanner.go:32-60: the result of ScanIP(ctx, ip) when GetIPInfo returns res
ScanIPResult(ip, res) ==
  IF ~ValidAddr(ip) THEN ScanResult(ip, NilInfo, ErrInvalid)
  ELSE IF res.err # NoErr THEN ScanResult(ip, NilInfo, res.err)
  ELSE ScanResult(ip, res.info, NoErr)

\* client.go:150-155: the calls of cache.Set after GetIPInfo's exchange
\* returned res
SetsAfter(calls, ip, res) ==
  IF res.err = NoErr /\ cacheOn
    THEN Append(calls, [key |-> ip, value |-> res.info])
    ELSE calls

\* main.go:216: the test of processInput's reader before it writes
processInputWrites(result) ==
  result.err = NoErr /\ ~result.info.nil /\ ~IsEmpty(result.info)

\* main.go:274, 277: the test of processStdin's reader before it writes
processStdinWrites(result) ==
  LET success == result.err = NoErr /\ ~result.info.nil
                                    /\ ~IsEmpty(result.info)
  IN success

\* scanner.go:32-60, client.go:121-155, scanner.go:135-138: ScanIP(ip) for a
\* key that is not cached; GetIPInfo's exchange ends with resp and is not
\* retried, and the result is sent on the results channel
Lookup(ip, resp) ==
  /\ opc = "idle"
  /\ nLookups < MaxLookups
  /\ nLookups' = nLookups + 1
  /\ LET res == fetchIPInfo(ip, resp)
     IN /\ cur' = ScanIPResult(ip, res)
        /\ setCalls' = IF ValidAddr(ip) THEN SetsAfter(setCalls, ip, res)
                       ELSE setCalls
  /\ opc' = "result"
  /\ UNCHANGED <<omitEmpty, cacheOn, stdinMode, written>>

\* main.go:215-221, 273-282: the reader takes the result from the channel
\* and writes it or not
ConsumeResult ==
  /\ opc = "result"
  /\ written' = IF (IF stdinMode THEN processStdinWrites(cur)
                    ELSE processInputWrites(cur))
                  THEN Append(written, cur) ELSE written
  /\ cur' = NoResult
  /\ opc' = "idle"
  /\ UNCHANGED <<omitEmpty, cacheOn, stdinMode, setCalls, nLookups>>

\* main.go:69-100: the settings main has made when it starts to process its
\* input
OutInit ==
  /\ omitEmpty \in BOOLEAN
  /\ cacheOn \in BOOLEAN
  /\ stdinMode \in BOOLEAN
  /\ opc = "idle"
  /\ cur = NoResult
  /\ written = <<>>
  /\ setCalls = <<>>
  /\ nLookups = 0

\* the output path when a specification does not use it
OutUnused ==
  /\ omitEmpty = TRUE
  /\ cacheOn = FALSE
  /\ stdinMode = FALSE
  /\ opc = "idle"
  /\ cur = NoResult
  /\ written = <<>>
  /\ setCalls = <<>>
  /\ nLookups = 0

OutLookup ==
  /\ \E ip \in Addrs \cup {BadAddr}, resp \in Responses : Lookup(ip, resp)
  /\ UNCHANGED notOut
OutConsumeResult == ConsumeResult /\ UNCHANGED notOut

OutNext ==
  \/ OutLookup
  \/ OutConsumeResult

\* ------------------------------------------------------------------------
\* Scanner.ScanIP over Client.GetIPInfo
\* ------------------------------------------------------------------------
notScanIP == <<clientVars, scanVars, outVars, configVars, inputVars,
               backoffVars,
  fetchersVars>>

\* &models.ScanResult{IP: ip, Error: err} (scanner.go:36-39, 46-49) and
\* &models.ScanResult{IP: ip, Info: info} (scanner.go:56-59)
NoSRet == [ip |-> NoKey, err |-> "none"]
SRet(ip, err) == [ip |-> ip, err |-> err]

\* a ScanIP that validates its key only after the lookup
ScanIPCall_fetchFirst(ip) ==
  /\ spc = "idle"
  /\ sip' = ip
  /\ GetIPInfoCall(ip)
  /\ spc' = "get"
  /\ sret' = NoSRet

\* scanner.go:32-42: ScanIP(ctx, ip) is called; for a key that ValidateIP
\* rejects it returns the Failure, for another key it calls GetIPInfo
ScanIPCall(ip) ==
  /\ spc = "idle"
  /\ sip' = ip
  /\ IF ~ValidAddr(ip)
       THEN /\ sret' = SRet(ip, ErrInvalid)
            /\ spc' = "idle"
            /\ UNCHANGED <<fetchVars, cacheVars, rlVars>>
       ELSE /\ GetIPInfoCall(ip)
            /\ spc' = "get"
            /\ sret' = NoSRet

\* scanner.go:42-59: GetIPInfo has returned, and ScanIP returns the Failure
\* with its error or the Success
ScanIPReturn ==
  /\ spc = "get"
  /\ gpc = "idle"
  /\ sret' = SRet(sip, IF gret.kind = "ok" THEN NoErr ELSE gret.err)
  /\ spc' = "idle"
  /\ UNCHANGED <<sip, fetchVars, cacheVars, rlVars>>

\* the cache of the client, asked for one address
ScanIPCacheInit ==
  /\ items = [j \in {} |-> NoItem]
  /\ keyOrder = <<>>
  /\ maxSize = FetchCacheSize
  /\ ttl = FetchCacheTTL
  /\ now = 0
  /\ callers = {Fetcher}
  /\ askKeys = {"192.0.2.1"}
  /\ askValues = ConcValues
  /\ track = FALSE
  /\ cpc = [t \in CallerIds |-> "idle"]
  /\ ckey = [t \in CallerIds |-> NoKey]
  /\ citem = [t \in CallerIds |-> NoItem]
  /\ cret = NoRet
  /\ recency = <<>>
  /\ insOrder = <<>>
  /\ evictHist = "none"

\* no ScanIP was called yet
ScanIPInit ==
  /\ spc = "idle"
  /\ sip = NoKey
  /\ sret = NoSRet

\* ScanIP when a specification does not use it
ScanIPUnused ==
  /\ spc = "idle"
  /\ sip = NoKey
  /\ sret = NoSRet

ScanIPScanIPCall ==
  (\E ip \in askKeys \cup {BadAddr} : ScanIPCall(ip)) /\ UNCHANGED notScanIP
ScanIPScanIPReturn == ScanIPReturn /\ UNCHANGED notScanIP

\* ScanIP and the steps of the GetIPInfo it calls
ScanIPNext ==
  \/ ScanIPScanIPCall
  \/ ScanIPScanIPReturn
  \/ FetchCacheGet
  \/ FetchCacheCheck
  \/ FetchCacheMiss
  \/ FetchCacheHit
  \/ FetchLoop
  \/ FetchBackoff
  \/ FetchWait
  \/ FetchWaitWake
  \/ FetchFetchStart
  \/ FetchFetchEnd
  \/ FetchCancel
  \/ RLPeriod
  \/ RLRegenTick
  \/ RLRefill
  \/ TickClock

\* ------------------------------------------------------------------------
\* Concurrent calls of GetIPInfo and the limiter
\* ------------------------------------------------------------------------
notFetchers == <<cacheVars, clientVars, scanVars, fetchVars, outVars,
                 configVars, inputVars, backoffVars, scanIPVars>>

\* client.go:146-148: goroutine t calls c.limiter.Wait(ctx); a nil return
\* leads to fetchIPInfo, an error ends the call
FetchersWait(t) ==
  /\ fpc[t] = "wait"
  /\ Wait(t)
  /\ granted' = granted + (rl.tokens - rl'.tokens)
  /\ fpc' = [fpc EXCEPT ![t] =
               IF rpc'[t] = "blocked" THEN "wait_blocked"
               ELSE IF rret' = "ctx_err" THEN "done" ELSE "fetch"]
  /\ UNCHANGED <<fattempt, started>>

\* client.go:146-148: the blocked c.limiter.Wait(ctx) of t returns
FetchersWaitWake(t) ==
  /\ fpc[t] = "wait_blocked"
  /\ WaitWake(t)
  /\ granted' = granted + (rl.tokens - rl'.tokens)
  /\ fpc' = [fpc EXCEPT ![t] = IF rret' = "ctx_err" THEN "done" ELSE "fetch"]
  /\ UNCHANGED <<fattempt, started>>

\* client.go:150, 171-184: fetchIPInfo sends its request, or fails at once
\* for a done context and the call returns ctx.Err() (client.go:160-162)
FetchersFetchStart(t) ==
  /\ fpc[t] = "fetch"
  /\ IF RequestSent(ctxDone[t])
       THEN /\ started' = started + 1
            /\ fpc' = [fpc EXCEPT ![t] = "inflight"]
       ELSE /\ fpc' = [fpc EXCEPT ![t] = "done"]
            /\ UNCHANGED started
  /\ UNCHANGED <<fattempt, granted, rlVars>>

\* a retry that goes straight to fetchIPInfo, without the limiter
FetchersFetchEnd_retryNoWait(t, ok) ==
  /\ fpc[t] = "inflight"
  /\ IF ok \/ ctxDone[t] \/ ~MoreAttempts(fattempt[t] + 1, MaxRetries)
       THEN /\ fpc' = [fpc EXCEPT ![t] = "done"]
            /\ UNCHANGED fattempt
       ELSE /\ fpc' = [fpc EXCEPT ![t] = "fetch"]
            /\ fattempt' = [fattempt EXCEPT ![t] = @ + 1]
  /\ UNCHANGED <<granted, started, rlVars>>

\* client.go:150-167: the exchange ends: with a result the call returns; with
\* a failure it returns when the context is done or the retries are used up
\* and goes to its next attempt otherwise (through the backoff, which takes
\* no token)
FetchersFetchEnd(t, ok) ==
  /\ fpc[t] = "inflight"
  /\ IF ok \/ ctxDone[t] \/ ~MoreAttempts(fattempt[t] + 1, MaxRetries)
       THEN /\ fpc' = [fpc EXCEPT ![t] = "done"]
            /\ UNCHANGED fattempt
       ELSE /\ fpc' = [fpc EXCEPT ![t] = "wait"]
            /\ fattempt' = [fattempt EXCEPT ![t] = @ + 1]
  /\ UNCHANGED <<granted, started, rlVars>>

\* the context the goroutines share (the ctx of ScanIPs, scanner.go:84, 99)
\* is cancelled
FetchersCancel ==
  /\ \A t \in WaiterIds : ~ctxDone[t]
  /\ ctxDone' = [t \in WaiterIds |-> TRUE]
  /\ UNCHANGED <<rl, rpc, rret, kpc, closeCalls, winOpen, winTicks,
                 winNoBlock>>
  /\ UNCHANGED fetchersVars

\* every goroutine has passed the cache and is at its first attempt
\* (client.go:133)
FetchersInit ==
  /\ fpc = [t \in WaiterIds |-> "wait"]
  /\ fattempt = [t \in WaiterIds |-> 0]
  /\ granted = 0
  /\ started = 0

\* the concurrent calls when a specification does not use them
FetchersUnused ==
  /\ fpc = [t \in WaiterIds |-> "done"]
  /\ fattempt = [t \in WaiterIds |-> 0]
  /\ granted = 0
  /\ started = 0

FetchersGoWait ==
  (\E t \in WaiterIds : FetchersWait(t)) /\ UNCHANGED notFetchers
FetchersGoWaitWake ==
  (\E t \in WaiterIds : FetchersWaitWake(t)) /\ UNCHANGED notFetchers
FetchersGoFetchStart ==
  (\E t \in WaiterIds : FetchersFetchStart(t)) /\ UNCHANGED notFetchers
FetchersGoFetchEnd ==
  (\E t \in WaiterIds, ok \in BOOLEAN : FetchersFetchEnd(t, ok))
    /\ UNCHANGED notFetchers
FetchersGoCancel == FetchersCancel /\ UNCHANGED notFetchers

\* the goroutines, and the ticker and the refill goroutine of the limiter
FetchersNext ==
  \/ FetchersGoWait
  \/ FetchersGoWaitWake
  \/ FetchersGoFetchStart
  \/ FetchersGoFetchEnd
  \/ FetchersGoCancel
  \/ RLPeriod
  \/ RLRegenTick
  \/ RLRefill

\* ------------------------------------------------------------------------
\* Configuration
\* ------------------------------------------------------------------------
\* the settings of Config that a flag can change (config.go:11-36)
Settings == {"concurrency", "format", "show_services", "omit_empty"}

\* config.go:46-70: Default(), its other settings left out
Default ==
  [Concurrency |-> 10, Format |-> "csv", ShowServices |-> FALSE,
   OmitEmpty |-> TRUE]

\* the configuration files: has is the set of settings the file holds; a
\* setting the file lacks is carried with the default's value
ConfigFiles ==
  {f \in [has : SUBSET Settings, Concurrency : {0, 5, 10},
          Format : {"csv", "json", "simple"}, ShowServices : BOOLEAN,
          OmitEmpty : BOOLEAN] :
     /\ "concurrency" \notin f.has => f.Concurrency = Default.Concurrency
     /\ "concurrency" \in f.has => f.Concurrency # Default.Concurrency
     /\ "format" \notin f.has => f.Format = Default.Format
     /\ "show_services" \notin f.has => f.ShowServices = Default.ShowServices
     /\ "omit_empty" \notin f.has => f.OmitEmpty = Default.OmitEmpty}

\* config.go:73-85: LoadFromFile starts from Default() and yaml.Unmarshal
\* overwrites the settings the file holds
LoadFromFile(f) ==
  [Concurrency |-> IF "concurrency" \in f.has THEN f.Concurrency
                   ELSE Default.Concurrency,
   Format |-> IF "format" \in f.has THEN f.Format ELSE Default.Format,
   ShowServices |-> IF "show_services" \in f.has THEN f.ShowServices
                    ELSE Default.ShowServices,
   OmitEmpty |-> IF "omit_empty" \in f.has THEN f.OmitEmpty
                 ELSE Default.OmitEmpty]

\* the flags MergeWithFlags is given (main.go:25-30)
FlagNames == {"c", "json", "csv", "open", "services", "omitEmpty"}

\* the command lines: given is the set of flags written on it; a flag that
\* is not written is carried with the default main.go:25-30 declares for it
CommandLines ==
  {l \in [given : SUBSET FlagNames, c : {0, 3}, json : BOOLEAN,
          csv : BOOLEAN, open : BOOLEAN, services : BOOLEAN,
          omitEmpty : BOOLEAN] :
     /\ "c" \notin l.given => l.c = 0
     /\ "c" \in l.given => l.c > 0
     /\ l.json <=> "json" \in l.given
     /\ l.csv <=> "csv" \in l.given
     /\ l.open <=> "open" \in l.given
     /\ "services" \notin l.given => l.services = FALSE
     /\ "omitEmpty" \notin l.given => l.omitEmpty = TRUE}

\* a pointer to v, and the nil pointer
Ptr(v) == [nil |-> FALSE, val |-> v]

\* main.go:44, 69: after flag.Parse() every flag variable points to the
\* value written on the command line, or to the flag's default
ParsedFlags(l) ==
  [concurrency |-> Ptr(l.c), jsonOutput |-> Ptr(l.json),
   csvOutput |-> Ptr(l.csv), onlyHost |-> Ptr(l.open),
   servicesOutput |-> Ptr(l.services), omitEmpty |-> Ptr(l.omitEmpty)]

\* config.go:88-114: the Config c after c.MergeWithFlags(...) with the
\* pointers of f
MergeWithFlags(c, f) ==
  LET c1 == IF ~f.concurrency.nil /\ f.concurrency.val > 0
              THEN [c EXCEPT !.Concurrency = f.concurrency.val] ELSE c
      c2 == IF ~f.jsonOutput.nil /\ f.jsonOutput.val
              THEN [c1 EXCEPT !.Format = "json"] ELSE c1
      c3 == IF ~f.csvOutput.nil /\ f.csvOutput.val
              THEN [c2 EXCEPT !.Format = "csv"] ELSE c2
      c4 == IF ~f.onlyHost.nil /\ f.onlyHost.val
              THEN [c3 EXCEPT !.Format = "simple"] ELSE c3
      c5 == IF ~f.servicesOutput.nil
              THEN [c4 EXCEPT !.ShowServices = f.servicesOutput.val] ELSE c4
  IN IF ~f.omitEmpty.nil
       THEN [c5 EXCEPT !.OmitEmpty = f.omitEmpty.val] ELSE c5

\* main.go:66, 139-163: loadConfig returns the file's configuration; a file
\* that holds no setting gives the default, as does a missing file
LoadConfig ==
  /\ mpc = "start"
  /\ cfg' = LoadFromFile(file)
  /\ mpc' = "loaded"
  /\ UNCHANGED <<cmdline, file>>

\* main.go:69: cfg.MergeWithFlags(concurrency, jsonOutput, csvOutput,
\* onlyHost, servicesOutput, omitEmpty)
MergeFlags ==
  /\ mpc = "loaded"
  /\ cfg' = MergeWithFlags(cfg, ParsedFlags(cmdline))
  /\ mpc' = "merged"
  /\ UNCHANGED <<cmdline, file>>

\* main.go:44: main has parsed its flags and has not loaded a configuration
ConfigInit ==
  /\ cmdline \in CommandLines
  /\ file \in ConfigFiles
  /\ cfg = Default
  /\ mpc = "start"

\* the configuration when a specification does not use it
ConfigUnused ==
  /\ cmdline = [given |-> {}, c |-> 0, json |-> FALSE, csv |-> FALSE,
                open |-> FALSE, services |-> FALSE, omitEmpty |-> TRUE]
  /\ file = [has |-> {}, Concurrency |-> Default.Concurrency,
             Format |-> Default.Format,
             ShowServices |-> Default.ShowServices,
             OmitEmpty |-> Default.OmitEmpty]
  /\ cfg = Default
  /\ mpc = "merged"

ConfigLoadConfig == LoadConfig /\ UNCHANGED notConfig
ConfigMergeFlags == MergeFlags /\ UNCHANGED notConfig

ConfigNext ==
  \/ ConfigLoadConfig
  \/ ConfigMergeFlags

\* ------------------------------------------------------------------------
\* Specifications
\* ------------------------------------------------------------------------
\* the initial states of each specification: the subsystem under study is
\* constructed, the others are not in use
InitCacheSeq ==
  /\ CacheInit(1, Keys, Values)
  /\ RLUnused /\ ClientUnused /\ ScanUnused /\ FetchUnused
  /\ OutUnused /\ ConfigUnused /\ InputUnused
  /\ BackoffUnused
  /\ ScanIPUnused
  /\ FetchersUnused

InitCacheConc ==
  /\ CacheInit(MaxCallers, ConcKeys, ConcValues)
  /\ RLUnused /\ ClientUnused /\ ScanUnused /\ FetchUnused
  /\ OutUnused /\ ConfigUnused /\ InputUnused
  /\ BackoffUnused
  /\ ScanIPUnused
  /\ FetchersUnused

InitRL ==
  RLInit /\ CacheUnused /\ ClientUnused /\ ScanUnused /\ FetchUnused
  /\ OutUnused /\ ConfigUnused /\ InputUnused
  /\ BackoffUnused
  /\ ScanIPUnused
  /\ FetchersUnused

InitClient ==
  ClientInit /\ CacheUnused /\ RLUnused /\ ScanUnused /\ FetchUnused
  /\ OutUnused /\ ConfigUnused /\ InputUnused
  /\ BackoffUnused
  /\ ScanIPUnused
  /\ FetchersUnused

InitScan ==
  ScanInit /\ CacheUnused /\ RLUnused /\ ClientUnused /\ FetchUnused
  /\ OutUnused /\ ConfigUnused /\ InputUnused
  /\ BackoffUnused
  /\ ScanIPUnused
  /\ FetchersUnused

InitFetch ==
  /\ FetchCacheInit
  /\ RLInit /\ ClientUnused /\ ScanUnused /\ FetchInit
  /\ OutUnused /\ ConfigUnused /\ InputUnused
  /\ BackoffUnused
  /\ ScanIPUnused
  /\ FetchersUnused

InitFetchAnyRetries ==
  /\ FetchCacheInit
  /\ RLInit /\ ClientUnused /\ ScanUnused /\ FetchInitAnyRetries
  /\ OutUnused /\ ConfigUnused /\ InputUnused
  /\ BackoffUnused
  /\ ScanIPUnused
  /\ FetchersUnused

\* the same, with any integer as maxRetries
SpecFetchAnyRetries == InitFetchAnyRetries /\ [][FetchNext]_vars

InitScanIP ==
  /\ ScanIPCacheInit
  /\ RLInit /\ ClientUnused /\ ScanUnused /\ FetchInit
  /\ OutUnused /\ ConfigUnused /\ InputUnused
  /\ BackoffUnused
  /\ ScanIPInit
  /\ FetchersUnused

\* one goroutine calling ScanIP on a scanner whose client has its limiter
\* and, when hasCache, its cache
SpecScanIP == InitScanIP /\ [][ScanIPNext]_vars

InitFetchers ==
  /\ RLInit /\ CacheUnused /\ ClientUnused /\ ScanUnused /\ FetchUnused
  /\ OutUnused /\ ConfigUnused /\ InputUnused
  /\ BackoffUnused
  /\ ScanIPUnused
  /\ FetchersInit

\* several goroutines inside GetIPInfo on a client with its limiter
SpecFetchers == InitFetchers /\ [][FetchersNext]_vars

\* one goroutine uses the cache
SpecCacheSeq == InitCacheSeq /\ [][CacheNext]_vars

\* several goroutines share the cache
SpecCacheConc == InitCacheConc /\ [][CacheNext]_vars

\* several goroutines share the cache and call Get, Set and Clear
SpecCacheConcClear == InitCacheConc /\ [][CacheClearNext]_vars

\* one rate limiter, its refill goroutine, and goroutines calling Wait and
\* Close
SpecRL == InitRL /\ [][RLNext]_vars

\* the rate limiter without the observer and without cancelled contexts
RLCloseNext ==
  \/ RLWait
  \/ RLWaitWake
  \/ RLPeriod
  \/ RLRegenTick
  \/ RLRefill
  \/ RLRegenExit
  \/ RLCloseEnter
  \/ RLCloseStopTicker
  \/ RLCloseOnceWaitEnd

\* the calls of Wait, with no ticker period passing
NewLimiterNext ==
  \/ RLWait
  \/ RLWaitWake
  \/ RLCancel

InitNewLimiter ==
  NewLimiterInit /\ CacheUnused /\ ClientUnused /\ ScanUnused /\ FetchUnused
  /\ OutUnused /\ ConfigUnused /\ InputUnused
  /\ BackoffUnused
  /\ ScanIPUnused
  /\ FetchersUnused

\* a limiter just made, in the time before its first ticker period ends
SpecNewLimiter == InitNewLimiter /\ [][NewLimiterNext]_vars

\* one rate limiter with the Go scheduler running the refill goroutine
\* whenever it can take a step that no tick is needed for: sending the token
\* of a tick it holds, and returning once the stop channel is closed
SpecRLFair ==
  InitRL /\ [][RLCloseNext]_vars /\ WF_vars(RLRefill) /\ WF_vars(RLRegenExit)

\* the calls of Wait, the cancellation of their contexts and the refill of
\* the pool
RLWaitNext ==
  \/ RLWait
  \/ RLWaitWake
  \/ RLCancel
  \/ RLPeriod
  \/ RLRegenTick
  \/ RLRefill

\* one rate limiter with the Go scheduler running every goroutine whose
\* select in Wait has a ready case
SpecRLWait ==
  /\ InitRL
  /\ [][RLWaitNext]_vars
  /\ \A t \in WaiterIds : WF_vars(WaitWake(t) /\ UNCHANGED notRL)

InitCacheClear ==
  /\ CacheInit(1, Keys, ConcValues)
  /\ RLUnused /\ ClientUnused /\ ScanUnused /\ FetchUnused
  /\ OutUnused /\ ConfigUnused /\ InputUnused
  /\ BackoffUnused
  /\ ScanIPUnused
  /\ FetchersUnused

\* one goroutine uses the cache and clears it
SpecCacheClear == InitCacheClear /\ [][CacheClearNext]_vars

InitOut ==
  /\ OutInit
  /\ CacheUnused /\ RLUnused /\ ClientUnused /\ ScanUnused /\ FetchUnused
  /\ ConfigUnused /\ InputUnused
  /\ BackoffUnused
  /\ ScanIPUnused
  /\ FetchersUnused

\* lookups of single inputs, each with one upstream exchange, and the
\* reader that writes their results
SpecOut == InitOut /\ [][OutNext]_vars

InitConfig ==
  /\ ConfigInit
  /\ CacheUnused /\ RLUnused /\ ClientUnused /\ ScanUnused /\ FetchUnused
  /\ OutUnused /\ InputUnused
  /\ BackoffUnused
  /\ ScanIPUnused
  /\ FetchersUnused

\* main from flag.Parse() to the merged configuration
SpecConfig == InitConfig /\ [][ConfigNext]_vars

\* one client whose limiter is replaced by WithRateLimit
SpecClient == InitClient /\ [][ClientNext]_vars

\* one call of ScanIPs with its workers, its feeder, the reader of results
\* and the cancellation of its context
SpecScan == InitScan /\ [][ScanNext]_vars

InitScanFair ==
  ScanOrderedInit /\ CacheUnused /\ RLUnused /\ ClientUnused /\ FetchUnused
  /\ OutUnused /\ ConfigUnused /\ InputUnused
  /\ BackoffUnused
  /\ ScanIPUnused
  /\ FetchersUnused

\* one call of ScanIPs with the Go scheduler running every worker, the
\* feeder and ScanIPs itself whenever they can take a step; the reader of
\* results, the cancellation and the end of a wait in GetIPInfo are under no
\* such obligation
SpecScanFair ==
  /\ InitScanFair
  /\ [][ScanWaitNext]_vars
  /\ \A w \in WorkerIds : WF_vars(WorkerRuns(w))
  /\ WF_vars(FeederRuns)
  /\ WF_vars(ScanScanReturn)

InitInput ==
  InputInit /\ CacheUnused /\ RLUnused /\ ClientUnused /\ FetchUnused
  /\ OutUnused /\ ConfigUnused
  /\ BackoffUnused
  /\ ScanIPUnused
  /\ FetchersUnused

\* one call of ScanInput, with the ScanIPs it may call
SpecInput == InitInput /\ [][InputNext]_vars

InitBackoff ==
  BackoffInit /\ CacheUnused /\ RLUnused /\ ClientUnused /\ ScanUnused
  /\ FetchUnused /\ OutUnused /\ ConfigUnused /\ InputUnused
  /\ ScanIPUnused
  /\ FetchersUnused

\* the backoffs one call of GetIPInfo computes
SpecBackoff == InitBackoff /\ [][BackoffNext]_vars

\* one goroutine calling GetIPInfo on a client with its limiter, the
\* limiter's ticker and refill goroutine, the cache and the wall clock
SpecFetch == InitFetch /\ [][FetchNext]_vars

\* ------------------------------------------------------------------------
\* Claims about the cache
\* ------------------------------------------------------------------------
NoDup(s) == \A i, j \in 1..Len(s) : i # j => s[i] # s[j]

CacheQuiet == \A t \in callers : cpc[t] = "idle"

\* C3: with capacity >= 1 and concurrent Get and Set calls, whenever no
\* operation is mid-way the cache holds at most maxSize entries and no key is
\* held twice in its structure.
C3_SharedCacheNeverCorrupted ==
  (maxSize >= 1 /\ CacheQuiet) => (Size <= maxSize /\ NoDup(keyOrder))

\* C4: used by a single caller, a cache of capacity >= 1 never holds more
\* than maxSize entries.
C4_SizeWithinCapacity == maxSize >= 1 => Size <= maxSize

\* C4 witness: an insertion beyond the capacity evicted an entry and the cache
\* is full.
C4_Witness == maxSize >= 1 /\ evictHist # "none" /\ Size = maxSize

\* C5: every Set and every Get hit puts its key at the most recently used
\* position, and the entry a Set evicts is the one least recently touched by
\* a Get hit or a Set, which is the key at the end of keyOrder.
C5_EvictsLeastRecentlyTouched ==
  [][/\ \A t \in callers, key \in askKeys, value \in askValues :
          Set(t, key, value) =>
            /\ Head(keyOrder') = key
            /\ \A e \in (DOMAIN items) \ (DOMAIN items') :
                  /\ e = Head(recency)
                  /\ e = keyOrder[Len(keyOrder)]
     /\ \A t \in callers :
          GetPromote(t) => Head(keyOrder') = ckey[t]]_vars

\* C5 witness: an eviction took a key that was not the oldest inserted one.
C5_Witness == evictHist = "recency"

\* C6: an entry expires at set time + TTL; a Get that finds the expiry passed
\* returns found = false and removes the entry from the map and from the
\* recency order, so that Size is one lower; a Get before the expiry returns
\* the stored value with found = true.
C6_ExpiredGetPurges ==
  [][/\ \A t \in callers, key \in askKeys, value \in askValues :
          Set(t, key, value) =>
            items'[key] = [exists |-> TRUE, value |-> value,
                           expiresAt |-> now + ttl]
     /\ \A t \in callers :
          /\ GetCheck(t) =>
               /\ now > items[ckey[t]].expiresAt => cpc'[t] = "get_purge"
               /\ now < items[ckey[t]].expiresAt => cpc'[t] = "get_promote"
          /\ GetPurge(t) =>
               /\ cret'.kind = "purged"
               /\ ckey[t] \notin DOMAIN items'
               /\ ckey[t] \notin SeqSet(keyOrder')
               /\ Cardinality(DOMAIN items') = Size - 1
          /\ GetPromote(t) =>
               cret' = [kind |-> "hit", value |-> items[ckey[t]].value]]_vars

\* C6 witness: a Get has just purged an expired entry.
C6_Witness == cret.kind = "purged" /\ now > 0

\* ------------------------------------------------------------------------
\* Claims about the rate limiter and the client
\* ------------------------------------------------------------------------
\* C7: in a window shorter than cap ticker periods (cap periods make the one
\* minute window) at most cap calls to Wait succeed without blocking.
C7_AtMostRatePerWindow ==
  (winOpen /\ winTicks < rl.cap) => winNoBlock <= rl.cap

\* nothing but the cancellation of its context can make the Wait of t return
WaitStuck(t) ==
  /\ rpc[t] = "blocked"
  /\ ~ctxDone[t]
  /\ rl.tokens = 0
  /\ rl.tickerStopped
  /\ rl.regen = "exited" \/ (rl.regen = "running" /\ rl.tickerC = 0)

\* C8: once Close has returned, no Wait is left blocked with nothing but its
\* own cancellation able to make it return.
C8_WaitReturnsAfterClose == \A t \in WaiterIds : rl.onceDone => ~WaitStuck(t)

\* C9: every limiter of the client other than its current one has been
\* closed.
C9_OldLimiterClosed ==
  \A i \in 1..Len(limiters) : i # clientLimiter => limiters[i].stopClosed

\* C10: the stop channel is closed at most once whatever the number of
\* sequential or concurrent Close calls, a Close made after the first one
\* has completed changes nothing, a Close that waited for a concurrent one
\* changes nothing, and a completed Close leaves the stop channel closed and
\* the ticker stopped.
C10_CloseIdempotent ==
  [][/\ rl'.stopCloses <= 1
     /\ rl'.onceDone => (rl'.stopClosed /\ rl'.tickerStopped)
     /\ \A c \in CloserIds :
          /\ (CloseEnter(c) /\ rl.onceDone) => rl' = rl
          /\ CloseOnceWaitEnd(c) => (rl' = rl /\ rl.onceDone)]_vars

\* C10 witness: at least two Close calls have been made and all have returned.
C10_Witness ==
  /\ closeCalls >= 2
  /\ rl.onceDone
  /\ rl.stopCloses = 1
  /\ \A c \in CloserIds : kpc[c] = "idle"

\* ------------------------------------------------------------------------
\* Claims about the scanner
\* ------------------------------------------------------------------------
\* the error of the outcome ScanIPs owes for key k, given what GetIPInfo
\* returned for it
OwedErr(k) ==
  IF k \notin ValidIPs THEN ErrInvalid
  ELSE IF fetched[k] = "ok" THEN NoErr ELSE fetched[k]

\* C1: with concurrency >= 1 and no cancellation, when ScanIPs returns it has
\* emitted exactly one outcome for every key of ips and none for any other
\* key; the outcome of a key whose lookup failed is a Failure carrying that
\* error, and it is a Success otherwise.
C1_OneOutcomePerKey ==
  (scanPc = "returned" /\ ~cancelled /\ concurrency >= 1) =>
    /\ scanErr = NoErr
    /\ \A k \in ScanKeys :
         IF k \in SeqSet(ips)
           THEN emitted[k] = <<OwedErr(k)>>
           ELSE emitted[k] = <<>>

\* C1 witness: ScanIPs has returned without cancellation after emitting a
\* Failure for one key and a Success for another.
C1_Witness ==
  /\ scanPc = "returned" /\ ~cancelled /\ concurrency >= 1
  /\ Len(ips) >= 2
  /\ \E k \in ScanKeys : emitted[k] = <<ErrFetch>>
  /\ \E k \in ScanKeys : emitted[k] = <<NoErr>>

\* C2: when ScanIPs has returned, cancelled or not, every key a worker took
\* from ipChan has exactly one emitted outcome.
C2_TakenKeyGetsOutcome ==
  scanPc = "returned" => \A k \in taken : Len(emitted[k]) = 1

C12_NoTokenAfterClose ==
  /\ rl.onceDone ~> rl.regen = "exited"
  /\ [][rl.onceDone => rl'.tokens <= rl.tokens]_vars

\* C12 amended: after Close has returned the refill goroutine eventually
\* exits; it receives no further tick, so the only token added after Close
\* returned is the one of a tick the goroutine had already received, and no
\* token is added once that one is handled or the goroutine has exited.
C12_RegenerationEnds ==
  /\ rl.onceDone ~> rl.regen = "exited"
  /\ [][(rl.onceDone /\ rl.regen # "got_tick") =>
          (rl'.tokens <= rl.tokens /\ rl'.regen # "got_tick")]_vars
  /\ [][rl.onceDone => rl'.tokens <= rl.tokens + 1]_vars

\* Close has returned, the goroutine has exited and the pool is not full
C12_Witness ==
  /\ rl.onceDone
  /\ rl.regen = "exited"
  /\ rl.tokens < rl.cap

\* ------------------------------------------------------------------------
\* Claims about GetIPInfo
\* ------------------------------------------------------------------------
\* the positions of GetIPInfo from which a further attempt is under way
Retrying == {"backoff", "wait", "wait_blocked", "fetch", "inflight"}

\* C13: the step by which GetIPInfo returns from a cache hit returns the
\* cached value with no error and leaves the limiter's tokens as they are,
\* and the call has made no call of Wait and no upstream exchange.
C13_CacheHitSkipsLimiter ==
  [][(gpc = "cache_get" /\ gpc' = "idle") =>
       /\ gret' = RetOk(items[gip].value, TRUE)
       /\ rl' = rl
       /\ waits' = 0
       /\ exchanges' = 0]_vars

\* GetIPInfo has returned a cached result
C13_Witness == gpc = "idle" /\ gret.kind = "ok" /\ gret.cached

\* C14: while the context is not cancelled a call makes at most
\* maxRetries + 1 exchanges, and a call that returned an error made exactly
\* maxRetries + 1 exchanges and returned the error of the exhausted retries,
\* which reports maxRetries + 1 attempts and wraps the last exchange's error.
C14_AtMostMaxRetriesPlusOne ==
  ~ctxDone[Fetcher] =>
    /\ exchanges <= maxRetries + 1
    /\ (gpc = "idle" /\ gret.kind = "err") =>
         /\ exchanges = maxRetries + 1
         /\ gret = RetExhausted(maxRetries + 1, lastErr)
         /\ lastErr \in FetchFailures

\* every exchange of a call with the largest number of retries has failed
C14_Witness ==
  /\ gpc = "idle"
  /\ ~ctxDone[Fetcher]
  /\ gret.err = "exhausted"
  /\ maxRetries = MaxRetries
  /\ exchanges = MaxRetries + 1

\* C15: after an exchange that ended with a body that does not parse,
\* GetIPInfo begins no further attempt.
C15_DecodeFailureNotRetried == lastErr = "decode" => gpc \notin Retrying

\* C16: a call that returns the result of an exchange made one exchange more
\* than the failures it absorbed, at most maxRetries + 1, and wrote the
\* result to the cache exactly once (when there is a cache), where it now
\* is; without cancellation an error is returned only by the exhausted
\* retries, after maxRetries + 1 failed exchanges.
C16_RetryableFailuresAbsorbed ==
  /\ (gpc = "idle" /\ gret.kind = "ok" /\ ~gret.cached) =>
       /\ exchanges = attempt + 1
       /\ exchanges <= maxRetries + 1
       /\ lastErr = "none"
       /\ sets = IF hasCache THEN 1 ELSE 0
       /\ hasCache => (gip \in DOMAIN items /\ items[gip].value = gret.value)
  /\ (gpc = "idle" /\ gret.kind = "err" /\ ~ctxDone[Fetcher]) =>
       (gret.err = "exhausted" /\ exchanges = maxRetries + 1)

\* a call has returned a result after a failed exchange and cached it
C16_Witness ==
  /\ gpc = "idle"
  /\ gret.kind = "ok"
  /\ ~gret.cached
  /\ attempt >= 1
  /\ hasCache

\* C17: once the context is done no exchange is started; from the backoff,
\* the token acquisition or the call of fetchIPInfo the call can only end
\* with a cancellation error, and an exchange in flight either succeeds or
\* ends the call with the context's error.
C17_CancelStopsAttempts ==
  [][ctxDone[Fetcher] =>
       /\ exchanges' <= exchanges
       /\ ~lateExchange'
       /\ (gpc \in Retrying \ {"inflight"}) =>
            \/ gpc' \in Retrying \ {"inflight"}
            \/ gpc' = "idle" /\ gret'.kind = "err" /\ gret'.err \in CancelErrs
       /\ (gpc = "inflight" /\ gpc' # "inflight") =>
            /\ gpc' = "idle"
            /\ gret'.kind = "ok" \/ gret' = RetCtx]_vars

\* a call has ended with a cancellation error after an exchange
C17_Witness ==
  /\ gpc = "idle"
  /\ gret.kind = "err"
  /\ gret.err \in CancelErrs
  /\ exchanges >= 1

\* C18 as stated: a call that returned an error leaves the cache as it was
\* when the call began.
C18_ErrorLeavesCacheUntouched ==
  (gpc = "idle" /\ gret.kind = "err") =>
    (items = cache0.items /\ keyOrder = cache0.keyOrder)

\* C18 amended: a call that returned an error has not called Set, and the
\* cache is as it was when the call began except that the entry of the ip
\* asked for, when there was one, had expired and is removed.
C18_ErrorOnlyPurgesExpired ==
  (gpc = "idle" /\ gret.kind = "err") =>
    /\ sets = 0
    /\ IF hasCache /\ gip \in DOMAIN cache0.items
         THEN /\ Expired(cache0.items[gip], now)
              /\ items = MapDelete(cache0.items, gip)
              /\ keyOrder = removeFromOrder(cache0.keyOrder, gip)
         ELSE /\ items = cache0.items
              /\ keyOrder = cache0.keyOrder

\* a call that found an expired entry of its ip has returned an error
C18_Witness ==
  /\ gpc = "idle"
  /\ gret.kind = "err"
  /\ hasCache
  /\ gip \in DOMAIN cache0.items
  /\ exchanges >= 1

\* ------------------------------------------------------------------------
\* Claims about the token pool
\* ------------------------------------------------------------------------
\* C19: the pool of a limiter of rate R always holds between 0 and R tokens,
\* and the refill goroutine's handling of a tick with the pool full leaves
\* the pool as it is.
C19_TokensWithinRate ==
  /\ [](rl.tokens >= 0 /\ rl.tokens <= rl.cap)
  /\ [][(rl.regen = "got_tick" /\ rl.tokens = rl.cap
                                  /\ rl'.regen = "running") =>
          (rl'.tokens = rl.cap /\ rl'.tickerC = rl.tickerC)]_vars

\* the refill goroutine holds a tick while the pool is full
C19_Witness == rl.regen = "got_tick" /\ rl.tokens = rl.cap

\* the rate NewRateLimiter(r) is to have
RateOf(r) == IF r > 0 THEN r ELSE 60

\* C20: NewRateLimiter(r) makes a limiter of rate r, or 60 when r <= 0, with
\* a full pool, the same limiter as NewRateLimiter(60) when r <= 0; before
\* the first ticker period ends every Wait that succeeded took a token of
\* that pool, and no Wait blocks before RateOf(r) of them have succeeded.
C20_StartsWithFullPool ==
  /\ \A r \in (-1)..MaxRate :
       /\ NewRateLimiter(r).cap = RateOf(r)
       /\ NewRateLimiter(r).tokens = RateOf(r)
       /\ r <= 0 => NewRateLimiter(r) = NewRateLimiter(60)
  /\ rl.tokens = rl.cap - winNoBlock
  /\ winNoBlock < rl.cap => \A t \in WaiterIds : rpc[t] # "blocked"

\* as many Waits as the rate have succeeded without a tick, and the next one
\* blocks
C20_Witness ==
  /\ winNoBlock = rl.cap
  /\ \E t \in WaiterIds : rpc[t] = "blocked"

\* ------------------------------------------------------------------------
\* Claims about Wait
\* ------------------------------------------------------------------------
\* C21: a Wait returns either success, having taken exactly one token from
\* the pool, or the error of its done context with the pool unchanged; a
\* Wait neither returns nor stops blocking while the pool is empty and its
\* context is live; and a Wait blocked on the empty pool returns once its
\* context is done.
C21_WaitTokenOrCancel ==
  /\ [][\A t \in WaiterIds :
          /\ ((Wait(t) /\ rpc'[t] = "idle") \/ WaitWake(t)) =>
               \/ /\ rret' \in {"ok", "ok_after_block"}
                  /\ rl.tokens > 0
                  /\ rl' = [rl EXCEPT !.tokens = rl.tokens - 1]
               \/ /\ rret' = "ctx_err"
                  /\ ctxDone[t]
                  /\ rl' = rl
          /\ (Wait(t) /\ rl.tokens = 0 /\ ~ctxDone[t]) =>
               (rpc'[t] = "blocked" /\ rret' = rret)
          /\ (rpc[t] = "blocked" /\ rl.tokens = 0 /\ ~ctxDone[t]) =>
               rpc'[t] = "blocked"]_vars
  /\ \A t \in WaiterIds :
       (rpc[t] = "blocked" /\ ctxDone[t]) ~> (rpc[t] = "idle")

\* a Wait has returned the error of its context while the pool was empty,
\* and another Wait is still blocked on the empty pool
C21_Witness ==
  /\ rret = "ctx_err"
  /\ rl.tokens = 0
  /\ \E t, u \in WaiterIds :
       /\ ctxDone[t] /\ rpc[t] = "idle"
       /\ ~ctxDone[u] /\ rpc[u] = "blocked"

\* ------------------------------------------------------------------------
\* Claims about Set on a cached key and about Clear
\* ------------------------------------------------------------------------
\* C22: a Set on a key the cache holds stores the new value with expiry
\* now + TTL and puts the key at the front of keyOrder; it leaves the set of
\* cached keys, every other entry and the order of the other keys as they
\* were, whatever the size of the cache; and a Get of a key that is not
\* expired goes on to return the value the cache holds for it.
C22_SetExistingReplaces ==
  /\ [][\A t \in callers, key \in askKeys, value \in askValues :
          (Set(t, key, value) /\ key \in DOMAIN items) =>
            /\ items'[key] =
                 [exists |-> TRUE, value |-> value, expiresAt |-> now + ttl]
            /\ DOMAIN items' = DOMAIN items
            /\ Cardinality(DOMAIN items') = Size
            /\ \A j \in (DOMAIN items) \ {key} : items'[j] = items[j]
            /\ Head(keyOrder') = key
            /\ Tail(keyOrder') = Without(keyOrder, {key})]_vars
  /\ [][\A t \in callers, key \in askKeys :
          (GetStart(t, key) /\ key \in DOMAIN items
                            /\ now <= items[key].expiresAt) =>
            /\ cpc'[t] = "get_check"
            /\ citem'[t] = items[key]]_vars
  /\ [][\A t \in callers :
          (cpc[t] = "get_check" /\ now <= citem[t].expiresAt
                                /\ cpc'[t] # "get_check") =>
            cpc'[t] = "get_promote"]_vars
  /\ [][\A t \in callers :
          (cpc[t] = "get_promote" /\ cpc'[t] # "get_promote") =>
            cret' = [kind |-> "hit", value |-> citem[t].value]]_vars

\* the call that returned last is a Set, made at a later time than the
\* cache's construction on a key that the full cache (of capacity MaxCap)
\* held already: the key is the most recently touched one, at the front of
\* keyOrder, without being the one inserted last
C22_Witness ==
  /\ CacheQuiet
  /\ cret.kind = "set"
  /\ maxSize = MaxCap
  /\ Size = maxSize
  /\ now > 0
  /\ Len(recency) = Size
  /\ recency[Len(recency)] = Head(keyOrder)
  /\ insOrder[Len(insOrder)] # Head(keyOrder)
  /\ items[Head(keyOrder)].expiresAt = now + ttl

\* C23: Clear leaves the cache with no entry (Size() is 0) and an empty
\* order list, with its capacity and TTL as they were; from then on a key
\* enters the cache only by a Set of that key, a Get of a key that is not in
\* the cache misses, a Get under way is on a key the cache holds, and the
\* cache never holds more entries than its capacity.
C23_ClearEmpties ==
  /\ [][\A t \in callers :
          Clear(t) =>
            /\ DOMAIN items' = {}
            /\ Cardinality(DOMAIN items') = 0
            /\ keyOrder' = <<>>
            /\ maxSize' = maxSize
            /\ ttl' = ttl]_vars
  /\ [][\A key \in askKeys :
          (key \notin DOMAIN items /\ key \in DOMAIN items') =>
            \E t \in callers, value \in askValues : Set(t, key, value)]_vars
  /\ [][\A t \in callers, key \in askKeys :
          (GetStart(t, key) /\ key \notin DOMAIN items) =>
            (cret' = [kind |-> "miss", value |-> 0] /\ cpc'[t] = "idle")]_vars
  /\ [](\A t \in callers :
          cpc[t] # "idle" => (ckey[t] \in DOMAIN items
                                /\ citem[t] = items[ckey[t]]))
  /\ [](cret.kind = "hit" => Size > 0)
  /\ [](maxSize >= 1 => Size <= maxSize)

\* the call that returned last is a Clear, made after the cache had been
\* filled beyond its capacity, and the cache is empty
C23_Witness ==
  /\ CacheQuiet
  /\ cret.kind = "clear"
  /\ evictHist # "none"
  /\ Size = 0
  /\ keyOrder = <<>>
  /\ maxSize = MaxCap

\* ------------------------------------------------------------------------
\* Claims about empty results and the output
\* ------------------------------------------------------------------------
\* results with every combination of empty and non-empty list fields
InfoSamples ==
  {ShodanIPInfo(ip, p, h, t, c, v) :
     ip \in Addrs, p \in {<<>>, <<80>>}, h \in {<<>>, <<"a.example">>},
     t \in {<<>>, <<"cloud">>}, c \in {<<>>, <<"cpe:/a:v:p">>},
     v \in {<<>>, <<"CVE-2021-1234">>}}

\* C24: a lookup whose exchange ends with status 200 and a body that is
\* empty or the literal {} yields a result without error whose info has the
\* requested address as its ip and every list empty, for which IsEmpty() is
\* true; every lookup that succeeds, this one included, is followed by one
\* cache.Set of the address and the info when the client has a cache, and by
\* none otherwise; and IsEmpty() is true exactly when ports, hostnames and
\* vulns are empty, whatever tags and cpes hold.
C24_EmptyBodyIsSuccess ==
  /\ [][\A ip \in Addrs, resp \in Responses :
          Lookup(ip, resp) =>
            /\ (~resp.transport /\ resp.status = 200
                                /\ resp.body \in {"", "{}"}) =>
                 /\ cur'.err = NoErr
                 /\ cur'.ip = ip
                 /\ cur'.info =
                      ShodanIPInfo(ip, <<>>, <<>>, <<>>, <<>>, <<>>)
                 /\ IsEmpty(cur'.info)
            /\ setCalls' =
                 IF cur'.err = NoErr /\ cacheOn
                   THEN Append(setCalls, [key |-> ip, value |-> cur'.info])
                   ELSE setCalls]_vars
  /\ [](\A s \in InfoSamples :
          IsEmpty(s) <=>
            (s.ports = <<>> /\ s.hostnames = <<>> /\ s.vulns = <<>>))

\* the result on the channel is the success of an empty body: no error, the
\* requested address, no data; and the client's cache was given it
C24_Witness ==
  /\ opc = "result"
  /\ cur.err = NoErr
  /\ cur.ip \in Addrs
  /\ cur.info = ShodanIPInfo(cur.ip, <<>>, <<>>, <<>>, <<>>, <<>>)
  /\ cacheOn
  /\ setCalls # <<>>
  /\ setCalls[Len(setCalls)] = [key |-> cur.ip, value |-> cur.info]

\* C28: the reader in processInput and in processStdin writes a result that
\* has no error and an info whenever omitEmpty is false, and when omitEmpty
\* is true exactly if the info is not empty.
C28_OmitEmptyRespected ==
  [][(opc = "result" /\ opc' = "idle" /\ cur.err = NoErr /\ ~cur.info.nil) =>
       IF ~omitEmpty \/ ~IsEmpty(cur.info)
         THEN written' = Append(written, cur)
         ELSE written' = written]_vars

\* ------------------------------------------------------------------------
\* Claims about the configuration
\* ------------------------------------------------------------------------
\* C29: in the configuration main works with after MergeWithFlags, a
\* setting whose flag was given on the command line has the flag's value; a
\* setting whose flag was not given and that the configuration file holds
\* has the file's value; and a setting with neither has the default.
C29_FlagOverFileOverDefault ==
  mpc = "merged" =>
    LET g == cmdline.given
        formatFlag == g \cap {"json", "csv", "open"} # {}
    IN /\ "c" \in g => cfg.Concurrency = cmdline.c
       /\ "services" \in g => cfg.ShowServices = cmdline.services
       /\ "omitEmpty" \in g => cfg.OmitEmpty = cmdline.omitEmpty
       /\ "open" \in g => cfg.Format = "simple"
       /\ ("csv" \in g /\ "open" \notin g) => cfg.Format = "csv"
       /\ ("json" \in g /\ "csv" \notin g /\ "open" \notin g) =>
            cfg.Format = "json"
       /\ ("c" \notin g /\ "concurrency" \in file.has) =>
            cfg.Concurrency = file.Concurrency
       /\ (~formatFlag /\ "format" \in file.has) => cfg.Format = file.Format
       /\ ("services" \notin g /\ "show_services" \in file.has) =>
            cfg.ShowServices = file.ShowServices
       /\ ("omitEmpty" \notin g /\ "omit_empty" \in file.has) =>
            cfg.OmitEmpty = file.OmitEmpty
       /\ ("c" \notin g /\ "concurrency" \notin file.has) =>
            cfg.Concurrency = Default.Concurrency
       /\ (~formatFlag /\ "format" \notin file.has) =>
            cfg.Format = Default.Format
       /\ ("services" \notin g /\ "show_services" \notin file.has) =>
            cfg.ShowServices = Default.ShowServices
       /\ ("omitEmpty" \notin g /\ "omit_empty" \notin file.has) =>
            cfg.OmitEmpty = Default.OmitEmpty

\* ------------------------------------------------------------------------
\* Claims about the return of ScanIPs
\* ------------------------------------------------------------------------
\* C30: when ScanIPs has returned a nil error, whatever concurrency >= 0 it
\* was called with, every key of ips was taken from ipChan by a worker and
\* has its outcome emitted.
C30_NilReturnMeansAllEmitted ==
  (scanPc = "returned" /\ scanErr = NoErr) =>
    \A k \in SeqSet(ips) : k \in taken /\ Len(emitted[k]) = 1

\* C26: once ScanIPs has returned every worker it started has exited, and
\* from then on no outcome is sent on the results channel: the channel only
\* loses the outcomes its reader takes.
C26_NoSendAfterReturn ==
  /\ [](scanPc = "returned" =>
          \A w \in WorkerIds : wpc[w] \in {"exited", "none"})
  /\ [][scanPc = "returned" =>
          (emitted' = emitted /\ results' <= results /\ wres' = wres)]_vars

\* ScanIPs has returned after all its workers sent outcomes, one of which
\* is still on the results channel
C26_Witness ==
  /\ scanPc = "returned"
  /\ concurrency = MaxWorkers
  /\ results > 0
  /\ \A w \in WorkerIds : wpc[w] = "exited"
  /\ Cardinality({k \in ScanKeys : emitted[k] # <<>>}) >= 2

\* C27: once the context of ScanIPs is cancelled, ScanIPs eventually returns
\* the context's error with every worker exited, whether or not the reader
\* of results goes on reading, and wherever the workers are: blocked in a
\* wait of GetIPInfo, or on the send of a result.
C27_CancelledScanReturns ==
  cancelled ~>
    (/\ scanPc = "returned"
     /\ scanErr = ErrCanceled
     /\ \A w \in WorkerIds : wpc[w] \in {"exited", "none"})

\* the context is cancelled and the reader has stopped while a worker is
\* blocked on the send of its result to the full results channel
C27_Witness ==
  /\ cancelled
  /\ ~consumerOn
  /\ concurrency >= 1
  /\ results = concurrency
  /\ \E w \in WorkerIds : wpc[w] = "send"

\* ------------------------------------------------------------------------
\* Claims about ScanInput
\* ------------------------------------------------------------------------
\* C25: when ScanInput has returned and its context was not cancelled, an
\* input that parses as a range was expanded and handed to ScanIPs and every
\* expanded address has exactly one outcome emitted; any other input was not
\* handed to ScanIPs and has exactly one outcome emitted, a Failure for an
\* invalid address or a failed fetch and a Success otherwise; no other key
\* has an outcome.
C25_ScanInputOutcomes ==
  (scanPc = "returned" /\ ~cancelled) =>
    IF IsCIDR(input)
      THEN /\ ips = IPAddresses(input)
           /\ \A k \in ScanKeys :
                IF k \in SeqSet(ips)
                  THEN emitted[k] = <<OwedErr(k)>>
                  ELSE emitted[k] = <<>>
      ELSE /\ ips = <<>>
           /\ taken = {}
           /\ \A k \in ScanKeys :
                IF k = input.key
                  THEN emitted[k] = <<OwedErr(k)>>
                  ELSE emitted[k] = <<>>

\* ------------------------------------------------------------------------
\* Claims about the workers and the feeder of ScanIPs
\* ------------------------------------------------------------------------
\* the workers ScanIPs has started
Started == {w \in WorkerIds : wpc[w] # "none"}

\* the workers inside ScanIP
Fetching == {w \in WorkerIds : wpc[w] \in {"scan", "scan_wait"}}

\* the keys the feeder has placed on ipChan
Placed == {ips[i] : i \in 1..(feedIdx - 1)}

\* C31 as stated: ScanIPs has started exactly concurrency workers, at most
\* concurrency keys are being fetched at once, no key is with two workers,
\* and every key placed on the work queue has been taken by a worker when
\* ScanIPs has returned.
C31_EveryPlacedKeyTaken ==
  /\ Cardinality(Started) = concurrency
  /\ Cardinality(Fetching) <= concurrency
  /\ \A v, w \in WorkerIds : (v # w /\ wip[v] # NoIP) => wip[v] # wip[w]
  /\ scanPc = "returned" => Placed \subseteq taken

\* C31: ScanIPs has started exactly concurrency workers and at most
\* concurrency keys are being fetched at once; a key placed on the work
\* queue is either still waiting in it or was taken from it, never both, and
\* no key is with two workers; when ScanIPs has returned and its context was
\* not cancelled, every key placed on the work queue has been taken.
C31_WorkersAndTakes ==
  /\ Cardinality(Started) = concurrency
  /\ Cardinality(Fetching) <= concurrency
  /\ \A v, w \in WorkerIds : (v # w /\ wip[v] # NoIP) => wip[v] # wip[w]
  /\ \A k \in Placed : (k \in SeqSet(ipChan)) # (k \in taken)
  /\ (scanPc = "returned" /\ ~cancelled) => Placed \subseteq taken

\* two workers are fetching two keys at once
C31_Witness ==
  /\ concurrency = 2
  /\ wpc[1] = "scan" /\ wpc[2] = "scan"
  /\ wip[1] # wip[2]
  /\ Placed = {wip[1], wip[2]}

\* C32 as stated: once the context is cancelled, a worker that has taken a
\* key and reaches the test of ctx.Done() starts no fetch for it and exits,
\* no worker starts a fetch, and the feeder places no further key on the
\* work queue.
C32_NothingStartedAfterCancel ==
  [][cancelled =>
       /\ \A w \in WorkerIds :
            /\ (wpc[w] = "check" /\ wpc'[w] # "check") => wpc'[w] = "exited"
            /\ (wpc[w] # "scan" /\ wpc'[w] = "scan") => FALSE
       /\ feedIdx' = feedIdx]_vars

\* C32: once the context is cancelled, a worker that has taken a key and
\* reaches the test of ctx.Done() starts no fetch for it and exits, and no
\* worker starts a fetch, so the number of fetches started after
\* cancellation is zero; the feeder places a further key on the work queue
\* only while the queue has room, and closes the queue when it stops.
C32_NoFetchStartedAfterCancel ==
  [][cancelled =>
       /\ \A w \in WorkerIds :
            /\ (wpc[w] = "check" /\ wpc'[w] # "check") =>
                 (wpc'[w] = "exited" /\ fetched' = fetched)
            /\ (wpc[w] # "scan" /\ wpc'[w] = "scan") => FALSE
       /\ feedIdx' # feedIdx =>
            (feedIdx' = feedIdx + 1 /\ Len(ipChan) < concurrency)
       /\ feederPc' # feederPc => ipChanClosed']_vars

\* the context was cancelled, a worker that had taken a key exited without
\* fetching it, a key is left in the work queue, and ScanIPs has returned
C32_Witness ==
  /\ cancelled
  /\ scanPc = "returned"
  /\ \E k \in taken : fetched[k] = "none"
  /\ ipChan # <<>>

\* ------------------------------------------------------------------------
\* Claims about the retries of GetIPInfo
\* ------------------------------------------------------------------------
\* C33: the wait computed before a retry is positive, and from the second
\* retry on it is greater than the wait computed before the retry that
\* preceded it, whatever max_retries is.
C33_BackoffPositiveIncreasing ==
  backoffAttempt >= 1 =>
    /\ Positive(backoffDuration)
    /\ backoffAttempt >= 2 => Less(prevDuration, backoffDuration)

\* C34: a call that returned the error of the exhausted retries made as many
\* exchanges as the error reports attempts, at least one, and the error
\* wraps the error of the last exchange, whatever integer maxRetries is.
C34_ExhaustedReportsExchanges ==
  (gpc = "idle" /\ gret.kind = "err" /\ gret.err = "exhausted") =>
    /\ gret.attempts = exchanges
    /\ gret.attempts >= 1
    /\ gret.cause \in FetchFailures
    /\ gret.cause = lastErr

\* ------------------------------------------------------------------------
\* Claims about ScanIP
\* ------------------------------------------------------------------------
\* C35: GetIPInfo is never called for a key that is no valid address, so
\* such a key is never looked up or stored in the cache, and no token is
\* taken and no exchange made for it; the call of ScanIP for such a key
\* returns the Failure for that key in the same step and leaves the cache,
\* the limiter and the client as they are.
C35_InvalidKeyFailsAtOnce ==
  /\ [](/\ spc = "get" => ValidAddr(sip)
        /\ gip # NoKey => ValidAddr(gip)
        /\ \A k \in DOMAIN items : ValidAddr(k)
        /\ (spc = "idle" /\ sip # NoKey /\ ~ValidAddr(sip)) =>
             sret = SRet(sip, ErrInvalid))
  /\ [][(spc = "idle" /\ ~ValidAddr(sip') /\ <<sip, sret>>' # <<sip, sret>>)
          => /\ spc' = "idle"
             /\ sret' = SRet(sip', ErrInvalid)
             /\ UNCHANGED <<fetchVars, cacheVars, rlVars>>]_vars

\* ScanIP has returned the Failure for an invalid key on a client that had
\* made an exchange for another key and has a token left
C35_Witness ==
  /\ spc = "idle"
  /\ sret = SRet(BadAddr, ErrInvalid)
  /\ exchanges >= 1
  /\ rl.tokens >= 1

\* ------------------------------------------------------------------------
\* Claims about exchanges and tokens
\* ------------------------------------------------------------------------
\* the goroutines that hold a token they have not yet used for an exchange
HoldingToken == {t \in WaiterIds : fpc[t] = "fetch"}

\* C36: the exchanges started, together with the goroutines that have taken
\* a token and are about to start their exchange, never exceed the tokens
\* that left the limiter; when no context is cancelled they are equal in
\* number, every exchange having used the token its goroutine took for it.
C36_ExchangesWithinTokens ==
  /\ started + Cardinality(HoldingToken) <= granted
  /\ (\A t \in WaiterIds : ~ctxDone[t]) =>
       started + Cardinality(HoldingToken) = granted

\* two goroutines have made exchanges, one of them a retry, and all the
\* tokens granted went into exchanges
C36_Witness ==
  /\ started >= 3
  /\ started = granted
  /\ \E t \in WaiterIds : fattempt[t] >= 1
  /\ \E t, u \in WaiterIds : t # u /\ fpc[t] = "inflight" /\ fpc[u] = "done"

\* ------------------------------------------------------------------------
\* Claims about a cache of capacity 0 and about concurrent calls
\* ------------------------------------------------------------------------
\* C37: a cache made with maxSize 0 never holds more than 0 entries.
C37_ZeroCapacityStaysEmpty == maxSize = 0 => Size <= 0

\* C38: the purge step of a Get removes the entry of its key only when the
\* entry stored at that moment has expired.
C38_PurgeOnlyExpired ==
  [][\A t \in callers :
       (cpc[t] = "get_purge" /\ cpc'[t] = "idle"
          /\ ckey[t] \in DOMAIN items /\ ckey[t] \notin DOMAIN items')
       => Expired(items[ckey[t]], now)]_vars

\* C39: whenever no operation is mid-way, keyOrder holds exactly the keys of
\* the items map.
C39_OrderListsTheKeys == CacheQuiet => SeqSet(keyOrder) = DOMAIN items

\* ------------------------------------------------------------------------
\* Claims about the feeder of ScanIPs
\* ------------------------------------------------------------------------
\* C40: the feeder closes ipChan exactly once, when it ends, and it ends
\* once ScanIPs has returned: no feeder stays blocked on ipChan.
C40_FeederClosesAndEnds ==
  /\ [](ipChanClosed <=> feederPc = "done")
  /\ (scanPc = "returned") ~> (feederPc = "done")

====
